---- MODULE Spec2Model ----
(***************************************************************************)
(* Pattern expansion (scripts/generate-complete-hands.py and               *)
(* NMJL_Hand_Generator.py) and hand scoring (scorer.py) of the American    *)
(* Mahjong assistant.                                                      *)
(*                                                                         *)
(* Python strings are sequences of atoms: one atom per character for the   *)
(* digits "0".."9", "," ":" "-" and " ", and one atom per word for         *)
(* alphabetic words ("flower", "east", "dots", ...).  Python dicts are     *)
(* sequences of [k, v] entries in insertion order.  A JSON value that may  *)
(* be a string, an integer or null is a record [t, s] with s its str().    *)
(***************************************************************************)
EXTENDS Integers, Sequences, FiniteSets, TLC

(***************************************************************************)
(* Bounds of the model                                                     *)
(***************************************************************************)
MaxGroups == 3          \* groups per template (suit-role templates)
MaxHandGroups == 3      \* groups per template (tile templates)
MaxAllGroups == 2       \* groups per template (collection templates)
MaxPatterns == 2        \* templates per collection (expansion)
MaxCatalog == 3         \* templates per catalog (ranking)
MaxCount == 4           \* copies of one tile in an observed hand
MaxResolveGroups == 2   \* groups per template (unknown literals, types and references)
MaxMatchGroups == 3     \* groups per template (must-match propagation)
MaxScoreGroups == 2     \* groups per template (scoring step by step)
MaxDigits == 3          \* digits of a packed digit string

VARIABLES
    patterns,               \* the template collection (input, never written)
    hand_counts,            \* the observed tile multiset handed to the scorer
    pc,                     \* the statement about to run
    run,                    \* 1 for the first run over the collection, 2 for the second
    assignments,            \* result of generate_suit_combinations
    hand,                   \* result of generate_complete_hand_with_assignments
    pattern_idx,            \* generate_all_complete_hands: loop position
    complete_hands,         \* generate_all_complete_hands: complete_hands
    skipped,                \* generate_all_complete_hands: patterns reported as skipped
    first_hand_ids,         \* hand_id sequence returned by the first run
    key_idx,                \* generate_playable_hands: position in pattern_map
    all_playable_hands,     \* generate_playable_hands: all_playable_hands
    playable_hand_counter,  \* generate_playable_hands: playable_hand_counter
    first_playable_ids,     \* Hand_ID sequence returned by the first run
    score_idx,              \* find_best_pattern: loop position
    last_score,             \* the latest result of score_hand_for_pattern
    best_patterns,          \* find_best_pattern: best_patterns
    highest_score,          \* find_best_pattern: highest_score
    combo_idx,              \* generate_playable_hands: position in suit_combinations
    group_idx,              \* generate_playable_hands: position in the groups of the hand
    Suit_Assignments,       \* generate_playable_hands: playable_hand['Suit_Assignments']
    temp_hand,              \* score_hand_for_pattern: temp_hand
    total_score,            \* score_hand_for_pattern: total_score
    groups_to_process,      \* score_hand_for_pattern: groups_to_process
    proc_idx                \* score_hand_for_pattern: position in groups_to_process

vars == <<patterns, hand_counts, pc, run, assignments, hand, pattern_idx, complete_hands,
          skipped, first_hand_ids, key_idx, all_playable_hands, playable_hand_counter,
          first_playable_ids, score_idx, last_score, best_patterns, highest_score,
          combo_idx, group_idx, Suit_Assignments, temp_hand, total_score,
          groups_to_process, proc_idx>>

(***************************************************************************)
(* Python values and string methods                                        *)
(***************************************************************************)
None == <<"<None>">>

PyStr(s) == [t |-> "str", s |-> s]
PyInt(s) == [t |-> "int", s |-> s]
PyNone == [t |-> "None", s |-> <<>>]

DigitChars == {"0", "1", "2", "3", "4", "5", "6", "7", "8", "9"}

isdigit(s) == Len(s) > 0 /\ \A i \in 1..Len(s) : s[i] \in DigitChars

contains(s, atom) == \E i \in 1..Len(s) : s[i] = atom

startswith(s, prefix) ==
    /\ Len(s) >= Len(prefix)
    /\ SubSeq(s, 1, Len(prefix)) = prefix

RECURSIVE SplitFrom(_, _, _, _)
SplitFrom(s, sep, i, cur) ==
    IF i > Len(s) THEN <<cur>>
    ELSE IF s[i] = sep THEN <<cur>> \o SplitFrom(s, sep, i + 1, <<>>)
    ELSE SplitFrom(s, sep, i + 1, Append(cur, s[i]))

split(s, sep) == SplitFrom(s, sep, 1, <<>>)

RECURSIVE strip(_)
strip(s) ==
    IF Len(s) = 0 THEN s
    ELSE IF s[1] = " " THEN strip(Tail(s))
    ELSE IF s[Len(s)] = " " THEN strip(SubSeq(s, 1, Len(s) - 1))
    ELSE s

RECURSIVE join(_, _)
join(parts, sep) ==
    IF Len(parts) = 0 THEN <<>>
    ELSE IF Len(parts) = 1 THEN parts[1]
    ELSE parts[1] \o <<sep>> \o join(Tail(parts), sep)

\* int(s) for a string of decimal digits
DigitVal(c) ==
    CASE c = "0" -> 0 [] c = "1" -> 1 [] c = "2" -> 2 [] c = "3" -> 3
      [] c = "4" -> 4 [] c = "5" -> 5 [] c = "6" -> 6 [] c = "7" -> 7
      [] c = "8" -> 8 [] c = "9" -> 9

RECURSIVE int(_)
int(s) == IF Len(s) = 0 THEN 0 ELSE 10 * int(SubSeq(s, 1, Len(s) - 1)) + DigitVal(s[Len(s)])

SeqMap(Op(_), s) == [i \in 1..Len(s) |-> Op(s[i])]

Range(s) == {s[i] : i \in 1..Len(s)}

RECURSIVE SeqSum(_)
SeqSum(s) == IF Len(s) = 0 THEN 0 ELSE s[1] + SeqSum(Tail(s))

RECURSIVE Flatten(_)
Flatten(ss) == IF Len(ss) = 0 THEN <<>> ELSE ss[1] \o Flatten(Tail(ss))

RECURSIVE Filter(_, _)
Filter(Keep(_), s) ==
    IF Len(s) = 0 THEN <<>>
    ELSE IF Keep(s[1]) THEN <<s[1]>> \o Filter(Keep, Tail(s))
    ELSE Filter(Keep, Tail(s))

(***************************************************************************)
(* Python dict: entries in insertion order; assigning an existing key      *)
(* overwrites the value in place.                                          *)
(***************************************************************************)
DictHas(d, key) == \E i \in 1..Len(d) : d[i].k = key

DictGet(d, key, default) ==
    IF DictHas(d, key)
    THEN d[CHOOSE i \in 1..Len(d) : d[i].k = key].v
    ELSE default

DictSet(d, key, val) ==
    IF DictHas(d, key)
    THEN [i \in 1..Len(d) |-> IF d[i].k = key THEN [k |-> key, v |-> val] ELSE d[i]]
    ELSE Append(d, [k |-> key, v |-> val])

DictKeys(d) == [i \in 1..Len(d) |-> d[i].k]
DictValues(d) == [i \in 1..Len(d) |-> d[i].v]

(***************************************************************************)
(* Vocabularies of generate-complete-hands.py                              *)
(***************************************************************************)
SUITS == << [k |-> <<"dots">>, v |-> "D"],
            [k |-> <<"bams">>, v |-> "B"],
            [k |-> <<"cracks">>, v |-> "C"] >>

WINDS == << <<"east">>, <<"south">>, <<"west">>, <<"north">> >>
DRAGONS == << <<"red">>, <<"green">>, <<"white">> >>
FLOWERS == << <<"f1">>, <<"f2">>, <<"f3">>, <<"f4">> >>

PrimaryRoles == << <<"any">>, <<"second">>, <<"third">> >>
same_as == <<"same_as", ":">>

UnknownAtoms == {"UNKNOWN:", "UNKNOWN_SINGLE", "UNKNOWN_PAIR", "UNKNOWN_PUNG",
                 "UNKNOWN_KONG", "UNKNOWN_QUINT", "UNKNOWN_CONSTRAINT:"}

\* "UNKNOWN" in str(tile)
HasUnknown(tile) == \E i \in 1..Len(tile) : tile[i] \in UnknownAtoms

(***************************************************************************)
(* itertools.permutations(items, k): lexicographic in the positions        *)
(***************************************************************************)
RemoveAt(s, i) == SubSeq(s, 1, i - 1) \o SubSeq(s, i + 1, Len(s))

RECURSIVE permutations(_, _)
permutations(items, k) ==
    IF k = 0 THEN << <<>> >>
    ELSE Flatten([i \in 1..Len(items) |->
            LET rest == permutations(RemoveAt(items, i), k - 1)
            IN  [j \in 1..Len(rest) |-> <<items[i]>> \o rest[j]]])

\* itertools.product(*lists): the rightmost list varies fastest
RECURSIVE product(_)
product(lists) ==
    IF Len(lists) = 0 THEN << <<>> >>
    ELSE LET rest == product(Tail(lists))
         IN  Flatten([i \in 1..Len(lists[1]) |->
                [j \in 1..Len(rest) |-> <<lists[1][i]>> \o rest[j]]])

(***************************************************************************)
(* generate_suit_combinations                                              *)
(***************************************************************************)
IsPrimary(role) == role \in Range(PrimaryRoles)

RECURSIVE CollectSuitRoles(_, _)
CollectSuitRoles(groups, acc) ==
    IF Len(groups) = 0 THEN acc
    ELSE LET role == groups[1].Suit_Role
         IN  CollectSuitRoles(Tail(groups),
                IF IsPrimary(role) \/ startswith(role, same_as)
                THEN DictSet(acc, groups[1].Group, role)
                ELSE acc)

\* list(unique_roles) without sorted(): the iteration order of a set of strings
\* changes from one run to the next
UnsortedUniqueRoles(suit_roles) ==
    LET Present(r) == r \in Range(DictValues(suit_roles))
        sorted == Filter(Present, PrimaryRoles)
    IN  IF run = 1 THEN sorted ELSE [i \in 1..Len(sorted) |-> sorted[Len(sorted) + 1 - i]]

\* sorted(unique_roles): the roles present, in alphabetical order
SortedUniqueRoles(suit_roles) ==
    LET Present(r) == r \in Range(DictValues(suit_roles))
    IN  Filter(Present, PrimaryRoles)

RECURSIVE AssignRoles(_, _, _)
AssignRoles(items, role_to_suit, assignment) ==
    IF Len(items) = 0 THEN assignment
    ELSE LET group_name == items[1].k
             role == items[1].v
         IN  AssignRoles(Tail(items), role_to_suit,
                IF DictHas(role_to_suit, role)
                THEN DictSet(assignment, group_name, DictGet(role_to_suit, role, None))
                ELSE IF startswith(role, same_as)
                THEN LET ref_group == split(role, ":")[2]
                     IN  IF DictHas(assignment, ref_group)
                         THEN DictSet(assignment, group_name, DictGet(assignment, ref_group, None))
                         ELSE DictSet(assignment, group_name, <<"UNRESOLVED_REFERENCE">>)
                ELSE assignment)

\* every role paired with the first suit of the combination
ZipFirst(keys, vals) == [i \in 1..Len(keys) |-> [k |-> keys[i], v |-> vals[1]]]

ZipDict(keys, vals) ==
    [i \in 1..(IF Len(keys) < Len(vals) THEN Len(keys) ELSE Len(vals)) |->
        [k |-> keys[i], v |-> vals[i]]]

\* itertools.product(available_suits, repeat = n) in place of permutations
SuitProduct(available_suits, n) == product([j \in 1..n |-> available_suits])

SuitPermutations(available_suits, n) == permutations(available_suits, n)

\* no assignment at all, in place of the one empty assignment, without suit roles
generate_suit_combinations_none(groups) ==
    LET suit_roles == CollectSuitRoles(groups, <<>>)
        unique_roles == SortedUniqueRoles(suit_roles)
    IN  IF Len(unique_roles) = 0 THEN <<>>
        ELSE LET suit_combinations == SuitPermutations(DictKeys(SUITS), Len(unique_roles))
             IN  [c \in 1..Len(suit_combinations) |->
                    AssignRoles(suit_roles, ZipDict(unique_roles, suit_combinations[c]), <<>>)]

generate_suit_combinations(groups) ==
    LET suit_roles == CollectSuitRoles(groups, <<>>)
        unique_roles == SortedUniqueRoles(suit_roles)
        num_suits_needed == Len(unique_roles)
    IN  IF Len(suit_roles) = 0 THEN << <<>> >>
        ELSE IF num_suits_needed = 0 THEN << <<>> >>
        ELSE IF num_suits_needed > 3
        THEN << <<[k |-> <<"ERROR">>, v |-> <<"Too many suits needed">>]>> >>
        ELSE LET suit_combinations == SuitPermutations(DictKeys(SUITS), num_suits_needed)
             IN  [c \in 1..Len(suit_combinations) |->
                    AssignRoles(suit_roles, ZipDict(unique_roles, suit_combinations[c]), <<>>)]

(***************************************************************************)
(* expand_constraint_values_with_assignment                                *)
(***************************************************************************)
Truthy(s) == s # None /\ Len(s) > 0

\* f"{value}{suit_letter}"
NumberTile(value, suit_letter) == value \o <<suit_letter>>

ResolveLiteral(value, suit_assignment) ==
    IF value = <<"0">> THEN <<"white">>
    ELSE IF value \in Range(WINDS) THEN value
    ELSE IF value \in Range(DRAGONS) THEN value
    ELSE IF isdigit(value) /\ Truthy(suit_assignment)
    THEN NumberTile(value, DictGet(SUITS, suit_assignment, "D"))
    ELSE IF isdigit(value) THEN value
    ELSE <<"UNKNOWN:">> \o value

\* a digit string is one literal, however long
LiteralsUnpacked(constraint_str) ==
    IF contains(constraint_str, ",")
    THEN SeqMap(strip, split(constraint_str, ","))
    ELSE <<constraint_str>>

LiteralsOf(constraint_str) ==
    IF isdigit(constraint_str) /\ Len(constraint_str) > 1
    THEN [i \in 1..Len(constraint_str) |-> <<constraint_str[i]>>]
    ELSE IF contains(constraint_str, ",")
    THEN SeqMap(strip, split(constraint_str, ","))
    ELSE <<constraint_str>>

expand_constraint_values_with_assignment(constraint_values, suit_assignment, value_assignment) ==
    IF constraint_values.t = "None" THEN <<>>
    ELSE LET constraint_str == constraint_values.s
         IN  IF constraint_str = <<"flower">> THEN FLOWERS
             ELSE IF constraint_str \in {<<"wind">>, <<"winds">>} THEN WINDS
             ELSE IF constraint_str \in {<<"dragon">>, <<"dragons">>} THEN DRAGONS
             ELSE IF Len(constraint_str) = 0 \/ constraint_str = <<"any">> THEN <<>>
             ELSE LET chosen == IF Len(value_assignment) > 0 /\ DictHas(value_assignment, constraint_str)
                                THEN DictGet(value_assignment, constraint_str, None)
                                ELSE constraint_str
                      values == LiteralsOf(chosen)
                  IN  [i \in 1..Len(values) |-> ResolveLiteral(values[i], suit_assignment)]

(***************************************************************************)
(* generate_exact_tiles_for_group                                          *)
(***************************************************************************)
Repeat(tile, n) == [i \in 1..n |-> tile]

\* len(exact_tiles) > 0 and not any("UNKNOWN" in str(tile) ...)
GroupSuccess(exact_tiles) ==
    Len(exact_tiles) > 0 /\ \A i \in 1..Len(exact_tiles) : ~HasUnknown(exact_tiles[i])

\* the resolved tiles as they are, for every constraint type
generate_tiles_as_resolved(group, suit_assignment, value_assignment) ==
    LET base_tiles == expand_constraint_values_with_assignment(
                          group.Constraint_Values, DictGet(suit_assignment, group.Group, None),
                          value_assignment)
    IN  [tiles |-> base_tiles, ok |-> GroupSuccess(base_tiles)]

generate_exact_tiles_for_group(group, suit_assignment, value_assignment) ==
    LET constraint_type == group.Constraint_Type
        constraint_values == group.Constraint_Values
        assigned_suit == DictGet(suit_assignment, group.Group, None)
        base_tiles == expand_constraint_values_with_assignment(
                          constraint_values, assigned_suit, value_assignment)
        Copies(n, sentinel) ==
            IF Len(base_tiles) > 0 THEN Repeat(base_tiles[1], n) ELSE Repeat(<<sentinel>>, n)
        Result(exact_tiles) == [tiles |-> exact_tiles, ok |-> GroupSuccess(exact_tiles)]
    IN  CASE constraint_type = "single" ->
                Result(IF Len(base_tiles) > 0 THEN SubSeq(base_tiles, 1, 1)
                       ELSE << <<"UNKNOWN_SINGLE">> >>)
          [] constraint_type = "pair" -> Result(Copies(2, "UNKNOWN_PAIR"))
          [] constraint_type = "pung" -> Result(Copies(3, "UNKNOWN_PUNG"))
          [] constraint_type = "kong" ->
                IF constraint_values = PyStr(<<"flower">>)
                THEN Result(FLOWERS)
                ELSE Result(Copies(4, "UNKNOWN_KONG"))
          [] constraint_type = "quint" -> Result(Copies(5, "UNKNOWN_QUINT"))
          [] constraint_type = "sequence" -> Result(base_tiles)
          [] OTHER -> [tiles |-> << <<"UNKNOWN_CONSTRAINT:", constraint_type>> >>, ok |-> FALSE]

(***************************************************************************)
(* generate_complete_hand_with_assignments                                 *)
(***************************************************************************)
\* Counter(all_tiles)
Counter(tiles) ==
    [t \in Range(tiles) |-> Cardinality({i \in 1..Len(tiles) : tiles[i] = t})]

HandId(pattern, suit_assignment, value_assignment) ==
    LET base_id == pattern.Hands_Key
        suit_suffix == IF Len(suit_assignment) > 0
                       THEN join(DictValues(suit_assignment), "-")
                       ELSE <<"nosuits">>
        value_suffix == join([i \in 1..Len(value_assignment) |->
                                value_assignment[i].k \o <<":">> \o value_assignment[i].v], "-")
        hand_id == base_id \o <<"-">> \o suit_suffix
    IN  IF Len(value_suffix) > 0 THEN hand_id \o <<"-">> \o value_suffix ELSE hand_id

generate_complete_hand_with_assignments(pattern, suit_assignment, value_assignment) ==
    LET per_group == [g \in 1..Len(pattern.Groups) |->
                        generate_exact_tiles_for_group(pattern.Groups[g], suit_assignment,
                                                       value_assignment)]
        all_tiles == Flatten([g \in 1..Len(per_group) |-> per_group[g].tiles])
        success == \A g \in 1..Len(per_group) : per_group[g].ok
    IN  [hand_id |-> HandId(pattern, suit_assignment, value_assignment),
         pattern_key |-> pattern.Hands_Key,
         group_tiles |-> [g \in 1..Len(per_group) |-> per_group[g].tiles],
         required_tiles |-> all_tiles,
         tile_counts |-> Counter(all_tiles),
         total_tiles |-> Len(all_tiles),
         suit_assignments |-> suit_assignment,
         value_assignments |-> value_assignment,
         generation_success |-> success]

(***************************************************************************)
(* generate_constraint_value_combinations                                  *)
(***************************************************************************)
IsMultiValue(group) ==
    /\ group.Constraint_Values.t = "str"
    /\ contains(group.Constraint_Values.s, ",")
    /\ Len(split(group.Constraint_Values.s, ",")) > 1

MultiValueGroups(groups) == Filter(IsMultiValue, groups)

RECURSIVE DictFromPairs(_, _, _)
DictFromPairs(keys, vals, acc) ==
    IF Len(keys) = 0 THEN acc
    ELSE DictFromPairs(Tail(keys), Tail(vals), DictSet(acc, keys[1], vals[1]))

generate_constraint_value_combinations(pattern) ==
    LET multi_value_groups == MultiValueGroups(pattern.Groups)
        value_options == [i \in 1..Len(multi_value_groups) |->
                            SeqMap(strip, split(multi_value_groups[i].Constraint_Values.s, ","))]
        group_names == [i \in 1..Len(multi_value_groups) |-> multi_value_groups[i].Group]
        combos == product(value_options)
    IN  IF Len(multi_value_groups) = 0 THEN << <<>> >>
        ELSE [c \in 1..Len(combos) |-> DictFromPairs(group_names, combos[c], <<>>)]

(***************************************************************************)
(* generate_all_complete_hands: the body of the loop for one pattern       *)
(***************************************************************************)
Ceiling == 100

TotalCombinations(pattern) ==
    Len(generate_constraint_value_combinations(pattern))
        * Len(generate_suit_combinations(pattern.Groups))

\* over the ceiling, the first Ceiling hands in place of none
HandsOfPatternTruncated(pattern) ==
    LET value_combinations == generate_constraint_value_combinations(pattern)
        suit_combinations == generate_suit_combinations(pattern.Groups)
        hands == Flatten([i \in 1..Len(value_combinations) |->
                    [j \in 1..Len(suit_combinations) |->
                        generate_complete_hand_with_assignments(
                            pattern, suit_combinations[j], value_combinations[i])]])
    IN  IF Len(hands) > Ceiling THEN SubSeq(hands, 1, Ceiling) ELSE hands

\* suit-assignment-major: the loops of lines 490-491 exchanged
HandsOfPatternSuitMajor(pattern) ==
    LET value_combinations == generate_constraint_value_combinations(pattern)
        suit_combinations == generate_suit_combinations(pattern.Groups)
    IN  IF Len(value_combinations) * Len(suit_combinations) > Ceiling THEN <<>>
        ELSE Flatten([j \in 1..Len(suit_combinations) |->
                [i \in 1..Len(value_combinations) |->
                    generate_complete_hand_with_assignments(
                        pattern, suit_combinations[j], value_combinations[i])]])

HandsOfPattern(pattern) ==
    LET value_combinations == generate_constraint_value_combinations(pattern)
        suit_combinations == generate_suit_combinations(pattern.Groups)
    IN  IF Len(value_combinations) * Len(suit_combinations) > Ceiling THEN <<>>
        ELSE Flatten([i \in 1..Len(value_combinations) |->
                [j \in 1..Len(suit_combinations) |->
                    generate_complete_hand_with_assignments(
                        pattern, suit_combinations[j], value_combinations[i])]])

(***************************************************************************)
(* generate_playable_hands (NMJL_Hand_Generator.py)                        *)
(***************************************************************************)
PLAYABLE_SUITS == << <<"dots">>, <<"bams">>, <<"craks">> >>

RECURSIVE str(_)
str(n) ==
    LET Digit(d) == CHOOSE c \in DigitChars : DigitVal(c) = d
    IN  IF n < 10 THEN <<Digit(n)>> ELSE str(n \div 10) \o <<Digit(n % 10)>>

\* the keys of pattern_map, in order of first occurrence
RECURSIVE HandKeys(_, _)
HandKeys(collection, acc) ==
    IF Len(collection) = 0 THEN acc
    ELSE HandKeys(Tail(collection),
            IF collection[1].Hands_Key \in Range(acc) THEN acc
            ELSE Append(acc, collection[1].Hands_Key))

SubPatterns(collection, hand_key) ==
    LET HasKey(p) == p.Hands_Key = hand_key IN Filter(HasKey, collection)

SuitRolesNeeded(pattern) ==
    LET Needed(role) == \E g \in 1..Len(pattern.Groups) : pattern.Groups[g].Suit_Role = role
    IN  Filter(Needed, PrimaryRoles)

\* lines 54-57: for each role, for each group with that role
RECURSIVE AssignPrimary(_, _, _, _)
AssignPrimary(roles, combo, groups, suit_assignments) ==
    IF Len(roles) = 0 THEN suit_assignments
    ELSE LET RECURSIVE ForGroups(_, _)
             ForGroups(gs, acc) ==
                 IF Len(gs) = 0 THEN acc
                 ELSE ForGroups(Tail(gs),
                        IF gs[1].Suit_Role = roles[1]
                        THEN DictSet(acc, gs[1].Group, combo[1])
                        ELSE acc)
         IN  AssignPrimary(Tail(roles), Tail(combo), groups, ForGroups(groups, suit_assignments))

\* lines 61-65
ApplySameAs(group, suit_assignments) ==
    IF startswith(group.Suit_Role, same_as)
    THEN LET source_group_id == split(group.Suit_Role, ":")[2]
         IN  IF DictHas(suit_assignments, source_group_id)
             THEN DictSet(suit_assignments, group.Group, DictGet(suit_assignments, source_group_id, None))
             ELSE suit_assignments
    ELSE suit_assignments

\* propagation from the group to its match only
ApplyMustMatchForward(group, groups, suit_assignments) ==
    IF Truthy(group.Constraint_Must_Match)
    THEN LET match_group_id == group.Constraint_Must_Match
             match_found == \E g \in 1..Len(groups) : groups[g].Group = match_group_id
             current_group_suit == DictGet(suit_assignments, group.Group, None)
             match_group_suit == DictGet(suit_assignments, match_group_id, None)
         IN  IF match_found /\ Truthy(current_group_suit) /\ ~Truthy(match_group_suit)
             THEN DictSet(suit_assignments, match_group_id, current_group_suit)
             ELSE suit_assignments
    ELSE suit_assignments

\* lines 67-81
ApplyMustMatch(group, groups, suit_assignments) ==
    IF Truthy(group.Constraint_Must_Match)
    THEN LET match_group_id == group.Constraint_Must_Match
             match_found == \E g \in 1..Len(groups) : groups[g].Group = match_group_id
             current_group_suit == DictGet(suit_assignments, group.Group, None)
             match_group_suit == DictGet(suit_assignments, match_group_id, None)
         IN  IF ~match_found THEN suit_assignments
             ELSE IF Truthy(current_group_suit) /\ ~Truthy(match_group_suit)
             THEN DictSet(suit_assignments, match_group_id, current_group_suit)
             ELSE IF Truthy(match_group_suit) /\ ~Truthy(current_group_suit)
             THEN DictSet(suit_assignments, group.Group, match_group_suit)
             ELSE suit_assignments
    ELSE suit_assignments

RECURSIVE Propagate(_, _, _)
Propagate(todo, groups, suit_assignments) ==
    IF Len(todo) = 0 THEN suit_assignments
    ELSE Propagate(Tail(todo), groups,
            ApplyMustMatch(todo[1], groups, ApplySameAs(todo[1], suit_assignments)))

PlayableSuitCombinations(pattern) ==
    LET num_suits_needed == Len(SuitRolesNeeded(pattern))
    IN  IF num_suits_needed > 0 THEN permutations(PLAYABLE_SUITS, num_suits_needed)
        ELSE << <<>> >>

\* the counter set back to 1 for every pattern of the key
PlayableHandsNumberedPerPattern(pattern, hand_key, counter) ==
    LET suit_combinations == PlayableSuitCombinations(pattern)
    IN  [c \in 1..Len(suit_combinations) |->
            [Pattern |-> pattern,
             Suit_Assignments |->
                Propagate(pattern.Groups, pattern.Groups,
                    AssignPrimary(SuitRolesNeeded(pattern), suit_combinations[c],
                                  pattern.Groups, <<>>)),
             Hand_ID |-> hand_key \o <<"-">> \o str(c)]]

\* the hands of one pattern, numbered from counter on
PlayableHandsOfPattern(pattern, hand_key, counter) ==
    LET suit_combinations == PlayableSuitCombinations(pattern)
    IN  [c \in 1..Len(suit_combinations) |->
            [Pattern |-> pattern,
             Suit_Assignments |->
                Propagate(pattern.Groups, pattern.Groups,
                    AssignPrimary(SuitRolesNeeded(pattern), suit_combinations[c],
                                  pattern.Groups, <<>>)),
             Hand_ID |-> hand_key \o <<"-">> \o str(counter + c - 1)]]

RECURSIVE PlayableHandsOfKey(_, _, _)
PlayableHandsOfKey(sub_patterns, hand_key, counter) ==
    IF Len(sub_patterns) = 0 THEN <<>>
    ELSE LET first == PlayableHandsOfPattern(sub_patterns[1], hand_key, counter)
         IN  first \o PlayableHandsOfKey(Tail(sub_patterns), hand_key, counter + Len(first))

(***************************************************************************)
(* score_hand_for_pattern (scorer.py)                                      *)
(***************************************************************************)
SCORER_SUITS == <<"D", "C", "B">>

\* temp_hand.get(tile, 0)
CounterGet(counts, tile) == IF tile \in DOMAIN counts THEN counts[tile] ELSE 0

Tile(value, suit) == [v |-> value, s |-> suit]

RECURSIVE SumOver(_, _)
SumOver(f, keys) ==
    IF keys = {} THEN 0
    ELSE LET key == CHOOSE x \in keys : TRUE
         IN  f[key] + SumOver(f, keys \ {key})

AllPairsScore(counts) ==
    LET pairs == [tile \in DOMAIN counts |-> counts[tile] \div 2]
    IN  SumOver(pairs, DOMAIN pairs) * 2

Weight(group) ==
    CASE group.Constraint_Type = "quint" -> 5
      [] group.Constraint_Type = "kong" -> 4
      [] group.Constraint_Type = "pung" -> 3
      [] group.Constraint_Type = "sequence" -> 3
      [] group.Constraint_Type = "pair" -> 2
      [] group.Constraint_Type = "single" -> 1
      [] OTHER -> 0

\* weight descending, groups of equal weight in reverse template order
GroupsAscendingReversed(groups) ==
    LET OfWeight(w) == LET Has(g) == Weight(g) = w IN Filter(Has, groups)
        ascending == OfWeight(0) \o OfWeight(1) \o OfWeight(2) \o OfWeight(3) \o OfWeight(4)
                        \o OfWeight(5)
    IN  [i \in 1..Len(ascending) |-> ascending[Len(ascending) + 1 - i]]

\* sorted(groups, key = weight, reverse = True): stable
GroupsToProcess(groups) ==
    LET OfWeight(w) == LET Has(g) == Weight(g) = w IN Filter(Has, groups)
    IN  OfWeight(5) \o OfWeight(4) \o OfWeight(3) \o OfWeight(2) \o OfWeight(1) \o OfWeight(0)

TilesNeeded(constraint_type) ==
    CASE constraint_type = "pung" -> 3
      [] constraint_type = "kong" -> 4
      [] constraint_type = "pair" -> 2

\* the first suit with exactly tiles_needed copies
RECURSIVE MatchCopiesExact(_, _, _, _)
MatchCopiesExact(st, value, tiles_needed, suits) ==
    IF Len(suits) = 0 THEN st
    ELSE LET tile == Tile(value, suits[1])
         IN  IF CounterGet(st.temp_hand, tile) = tiles_needed
             THEN [temp_hand |-> [st.temp_hand EXCEPT ![tile] = @ - tiles_needed],
                   total_score |-> st.total_score + tiles_needed]
             ELSE MatchCopiesExact(st, value, tiles_needed, Tail(suits))

\* any copy of the tile is enough to take tiles_needed of them
RECURSIVE MatchCopiesOfAny(_, _, _, _)
MatchCopiesOfAny(st, value, tiles_needed, suits) ==
    IF Len(suits) = 0 THEN st
    ELSE LET tile == Tile(value, suits[1])
         IN  IF CounterGet(st.temp_hand, tile) > 0
             THEN [temp_hand |-> [st.temp_hand EXCEPT ![tile] = @ - tiles_needed],
                   total_score |-> st.total_score + tiles_needed]
             ELSE MatchCopiesOfAny(st, value, tiles_needed, Tail(suits))

\* lines 45-55: the first suit holding enough copies
RECURSIVE MatchCopies(_, _, _, _)
MatchCopies(st, value, tiles_needed, suits) ==
    IF Len(suits) = 0 THEN st
    ELSE LET tile == Tile(value, suits[1])
         IN  IF CounterGet(st.temp_hand, tile) >= tiles_needed
             THEN [temp_hand |-> [st.temp_hand EXCEPT ![tile] = @ - tiles_needed],
                   total_score |-> st.total_score + tiles_needed]
             ELSE MatchCopies(st, value, tiles_needed, Tail(suits))

\* int(v) raises ValueError unless v is a decimal integer (blanks around it allowed)
IntParses(v) == isdigit(strip(v))

RECURSIVE ConsumeRun(_, _)
ConsumeRun(counts, run_tiles) ==
    IF Len(run_tiles) = 0 THEN counts
    ELSE ConsumeRun([counts EXCEPT ![run_tiles[1]] = @ - 1], Tail(run_tiles))

\* lines 69-87: the first suit holding the whole run
RECURSIVE MatchRun(_, _, _)
MatchRun(st, values, suits) ==
    IF Len(suits) = 0 THEN st
    ELSE LET start_number == values[1]
             run_tiles_needed == [i \in 1..Len(values) |-> Tile(start_number + (i - 1), suits[1])]
             is_consecutive == \A i \in 1..(Len(run_tiles_needed) - 1) :
                                  run_tiles_needed[i].v + 1 = run_tiles_needed[i + 1].v
         IN  IF /\ \A i \in 1..Len(run_tiles_needed) :
                        CounterGet(st.temp_hand, run_tiles_needed[i]) > 0
                /\ is_consecutive
             THEN [temp_hand |-> ConsumeRun(st.temp_hand, run_tiles_needed),
                   total_score |-> st.total_score + Len(run_tiles_needed)]
             ELSE MatchRun(st, values, Tail(suits))

\* temp_hand is hand_counts itself, no copy
CallerCountsAliased(caller_counts, working_counts) == working_counts

\* line 18: temp_hand is a copy, so a write to it leaves the caller's multiset as it was
CallerCounts(caller_counts, working_counts) == caller_counts

ProcessGroup(st, group) ==
    LET constraint_type == group.Constraint_Type
        constraint_values == group.Constraint_Values
    IN  IF constraint_type \in {"pung", "kong", "pair"}
        THEN IF constraint_values.t = "str" /\ isdigit(constraint_values.s)
             THEN MatchCopies(st, int(constraint_values.s), TilesNeeded(constraint_type),
                              SCORER_SUITS)
             ELSE st
        ELSE IF constraint_type = "sequence"
        THEN LET parts == split(IF constraint_values.t = "None" THEN <<"None">>
                                ELSE constraint_values.s, ",")
             IN  IF \A i \in 1..Len(parts) : IntParses(parts[i])
                 THEN MatchRun(st, [i \in 1..Len(parts) |-> int(strip(parts[i]))], SCORER_SUITS)
                 ELSE st
        ELSE st

RECURSIVE ProcessGroups(_, _)
ProcessGroups(st, groups) ==
    IF Len(groups) = 0 THEN st
    ELSE ProcessGroups(ProcessGroup(st, groups[1]), Tail(groups))

\* without the special case of the ALL PAIRS section
score_by_groups(observed, pattern) ==
    ProcessGroups([temp_hand |-> observed, total_score |-> 0],
                  GroupsToProcess(pattern.Groups)).total_score

score_hand_for_pattern(observed, pattern) ==
    IF pattern.Section = <<"ALL PAIRS">>
    THEN AllPairsScore(observed)
    ELSE ProcessGroups([temp_hand |-> observed, total_score |-> 0],
                       GroupsToProcess(pattern.Groups)).total_score

(***************************************************************************)
(* find_best_pattern: the body of the loop for one pattern                 *)
(***************************************************************************)
UniqueId(pattern) ==
    pattern.Section \o <<"-">> \o str(pattern.Line) \o <<" (">> \o pattern.Hand_Pattern \o <<")">>

BestEntry(pattern, score) ==
    [score |-> score, unique_id |-> UniqueId(pattern), description |-> pattern.Hand_Description]

\* an equal score replaces the list
RankOneReplace(best, pattern, score) ==
    IF score > best.highest_score \/ (score = best.highest_score /\ score > 0)
    THEN [best_patterns |-> <<BestEntry(pattern, score)>>, highest_score |-> score]
    ELSE best

RankOne(best, pattern, score) ==
    IF score > best.highest_score
    THEN [best_patterns |-> <<BestEntry(pattern, score)>>, highest_score |-> score]
    ELSE IF score = best.highest_score /\ score > 0
    THEN [best_patterns |-> Append(best.best_patterns, BestEntry(pattern, score)),
          highest_score |-> best.highest_score]
    ELSE best

(***************************************************************************)
(* Inputs: templates, collections and observed hands                       *)
(***************************************************************************)
GroupName(i) == <<"G">> \o str(i)

MkGroup(name, constraint_type, constraint_values, suit_role, must_match) ==
    [Group |-> name,
     Constraint_Type |-> constraint_type,
     Constraint_Values |-> constraint_values,
     Suit_Role |-> suit_role,
     Constraint_Must_Match |-> must_match]

MkPattern(section, line, hands_key, groups) ==
    [Section |-> section,
     Line |-> line,
     Hands_Key |-> hands_key,
     Hand_Pattern |-> <<"pattern">>,
     Hand_Description |-> <<"description">>,
     Groups |-> groups]

\* a shape is <<Constraint_Type, Constraint_Values, Suit_Role>>; groups are named G1, G2, ...
TemplatesOf(shapes, max_groups) ==
    UNION {{[i \in 1..n |-> MkGroup(GroupName(i), f[i][1], f[i][2], f[i][3], None)] :
                f \in [1..n -> shapes]} : n \in 1..max_groups}

CommaList(literals) == PyStr(join(literals, ","))

\* the literals "1", "2", ..., "9", "0"
Digits(n) == [i \in 1..n |-> str(i % 10)]

\* suit-role templates: every role on every group, same_as to any group of the template
SuitRoleMenu(n) ==
    {<<"none">>, <<"any">>, <<"second">>, <<"third">>} \cup {same_as \o GroupName(j) : j \in 1..n}

SuitTemplates(max_groups) ==
    UNION {{[i \in 1..n |-> MkGroup(GroupName(i), "pung", PyStr(<<"1">>), r[i], None)] :
                r \in [1..n -> SuitRoleMenu(n)]} : n \in 1..max_groups}

\* tile templates: copies of a digit in and out of a suit, the flower kong, runs
HandShapes ==
    {<<constraint_type, PyStr(<<vr[1]>>), <<vr[2]>>>> :
        constraint_type \in {"pung", "kong", "quint"},
        vr \in {<<"1", "any">>, <<"2", "second">>}}
    \cup {<<"pung", PyStr(<<"1">>), <<"none">>>>,
          <<"kong", PyStr(<<"flower">>), <<"none">>>>,
          <<"sequence", CommaList(SubSeq(Digits(9), 3, 9)), <<"any">>>>}

\* collection templates: one or several suit roles, few and many value alternatives
AllShapes ==
    {<<"pung", PyStr(<<"1">>), <<"any">>>>,
     <<"pair", CommaList(<< <<"2">>, <<"5">> >>), <<"second">>>>,
     <<"pair", CommaList(Digits(10)), <<"none">>>>,
     <<"pair", CommaList(Digits(10)), <<"any">>>>,
     <<"pair", CommaList(Digits(10) \o << <<"east">> >>), <<"none">>>>,
     <<"kong", PyStr(<<"flower">>), <<"none">>>>}

AllTemplates(max_groups) ==
    {MkPattern(<<"2025">>, 1, key, groups) :
        key \in {<<"K1">>, <<"K2">>}, groups \in TemplatesOf(AllShapes, max_groups)}

SeqsUpTo(S, n) == UNION {[1..m -> S] : m \in 0..n}

\* collections of templates sharing or not sharing a Hands_Key; the first one has key K1
Collections(max_groups, max_patterns) ==
    {c \in SeqsUpTo(AllTemplates(max_groups), max_patterns) :
        Len(c) > 0 => c[1].Hands_Key = <<"K1">>}

\* catalogs list each template once
Catalogs(templates, max_catalog) ==
    {c \in SeqsUpTo(templates, max_catalog) :
        \A i, j \in 1..Len(c) : c[i] = c[j] => i = j}

\* ranking catalog: templates with different scores against the same hand
RankTemplates ==
    {MkPattern(<<"2025">>, 1, <<"K1">>,
        <<MkGroup(GroupName(1), "pair", PyStr(<<"1">>), <<"any">>, None)>>),
     MkPattern(<<"2025">>, 2, <<"K2">>,
        <<MkGroup(GroupName(1), "pung", PyStr(<<"1">>), <<"any">>, None)>>),
     MkPattern(<<"2025">>, 3, <<"K3">>,
        <<MkGroup(GroupName(1), "pair", PyStr(<<"2">>), <<"any">>, None)>>),
     MkPattern(<<"WINDS">>, 1, <<"K4">>,
        <<MkGroup(GroupName(1), "kong", PyStr(<<"flower">>), <<"none">>, None)>>),
     MkPattern(<<"ALL PAIRS">>, 1, <<"K5">>,
        <<MkGroup(GroupName(1), "pair", PyStr(<<"any">>), <<"any">>, None)>>)}

RankKeys == {Tile(1, "D"), Tile(1, "C"), Tile(2, "B")}
RankHands(max_count) == [RankKeys -> 0..max_count]

\* all-pairs templates and a contrast, against whole hands of HandSize tiles
HandSize == 14

PairTemplates ==
    {MkPattern(<<"ALL PAIRS">>, 1, <<"K1">>, <<>>),
     MkPattern(<<"ALL PAIRS">>, 2, <<"K2">>,
        <<MkGroup(GroupName(1), "pair", PyStr(<<"1">>), <<"any">>, None),
          MkGroup(GroupName(2), "kong", PyStr(<<"flower">>), <<"none">>, None)>>),
     MkPattern(<<"2025">>, 1, <<"K3">>,
        <<MkGroup(GroupName(1), "pair", PyStr(<<"1">>), <<"any">>, None)>>)}

PairKeys == {Tile(1, "D"), Tile(2, "D"), Tile(3, "D"), Tile(1, "C"), Tile(2, "C"),
             Tile(3, "C"), Tile(1, "B"), Tile(2, "B")}
PairHands(max_count) == {h \in [PairKeys -> 0..max_count] : SumOver(h, PairKeys) = HandSize}

\* single groups: every constraint type (and an unknown one) on every kind of descriptor
GroupTypes == {"single", "pair", "pung", "kong", "quint", "sequence", "bogus"}

GroupDescriptors ==
    {PyStr(<<"1">>), PyStr(<<"0">>), PyStr(<<"x">>), PyStr(<<"east">>),
     CommaList(<< <<"2">>, <<"5">> >>), CommaList(<< <<"1">>, <<"x">> >>),
     PyInt(<<"2", "0", "2", "5">>),
     PyStr(<<"flower">>), PyStr(<<"winds">>), PyStr(<<"dragon">>),
     PyStr(<<"any">>), PyStr(<<>>), PyNone}

GroupShapes ==
    {<<constraint_type, constraint_values, suit_role>> :
        constraint_type \in GroupTypes, constraint_values \in GroupDescriptors,
        suit_role \in {<<"none">>, <<"any">>}}

\* templates with unknown literals and types, value alternatives, suitless digits and
\* same_as references to an earlier, a later and the own group
ResolveShapes ==
    {<<"pung", PyStr(<<"1">>), <<"any">>>>,
     <<"pung", PyStr(<<"1">>), <<"none">>>>,
     <<"pung", PyStr(<<"1">>), same_as \o GroupName(1)>>,
     <<"pung", PyStr(<<"1">>), same_as \o GroupName(2)>>,
     <<"pung", PyStr(<<"x">>), <<"any">>>>,
     <<"pung", CommaList(<< <<"1">>, <<"x">> >>), <<"any">>>>,
     <<"pung", CommaList(<< <<"2">>, <<"5">> >>), <<"second">>>>,
     <<"quint", CommaList(<< <<"2">>, <<"5">> >>), <<"any">>>>,
     <<"sequence", CommaList(<< <<"1">>, <<"x">>, <<"3">> >>), <<"any">>>>,
     <<"kong", PyStr(<<"east">>), <<"none">>>>,
     <<"kong", PyStr(<<"flower">>), <<"none">>>>,
     <<"pair", PyStr(<<"0">>), <<"none">>>>,
     <<"bogus", PyStr(<<"1">>), <<"any">>>>}

\* must-match templates: roles with and without a suit, same_as to the last group,
\* must-match references to the first, the last and a missing group
MatchTemplates(max_groups) ==
    UNION {{[i \in 1..n |-> MkGroup(GroupName(i), "pung", PyStr(<<"1">>), f[i][1], f[i][2])] :
                f \in [1..n -> {<<"none">>, <<"any">>, <<"second">>, same_as \o GroupName(n)}
                                \X {None, GroupName(1), GroupName(n), GroupName(9)}]} :
            n \in 1..max_groups}

\* scoring templates: every constraint type, digits in and out of a string, runs that
\* are and are not consecutive, descriptors that are no numbers
ScoreShapes ==
    {<<"pung", PyStr(<<"1">>)>>, <<"kong", PyStr(<<"1">>)>>, <<"pair", PyStr(<<"1">>)>>,
     <<"quint", PyStr(<<"1">>)>>, <<"single", PyStr(<<"1">>)>>, <<"bogus", PyStr(<<"1">>)>>,
     <<"pair", PyStr(<<"2">>)>>, <<"pung", PyInt(<<"1">>)>>, <<"pung", PyStr(<<"flower">>)>>,
     <<"sequence", CommaList(<< <<"1">>, <<"2">>, <<"3">> >>)>>,
     <<"sequence", CommaList(<< <<"1">>, <<"3">>, <<"5">> >>)>>,
     <<"sequence", CommaList(<< <<"1">>, <<"x">> >>)>>}

ScoreTemplates(max_groups) ==
    {MkPattern(<<"2025">>, 1, <<"K1">>, groups) :
        groups \in TemplatesOf({<<s[1], s[2], <<"any">>>> : s \in ScoreShapes}, max_groups)}
    \cup {MkPattern(<<"ALL PAIRS">>, 1, <<"K1">>, groups) :
        groups \in TemplatesOf({<<s[1], s[2], <<"any">>>> : s \in ScoreShapes}, 1)}

\* observed hands for them: up to a quint of 1D, a kong of 1C, a pair of 1B, the run tiles
RunKeys == {Tile(2, "D"), Tile(3, "D"), Tile(2, "C"), Tile(3, "C")}
ScoreKeys == {Tile(1, "D"), Tile(1, "C"), Tile(1, "B")} \cup RunKeys
ScoreHands(max_count) ==
    {[tile \in ScoreKeys |->
        IF tile = Tile(1, "D") THEN d
        ELSE IF tile = Tile(1, "C") THEN c
        ELSE IF tile = Tile(1, "B") THEN b
        ELSE IF tile \in present THEN 1 ELSE 0] :
     d \in 0..(max_count + 1), c \in 0..max_count, b \in 0..(max_count - 2),
     present \in SUBSET RunKeys}

\* descriptors for the resolver: packed digit strings with and without zeros, as str
\* and as int, lone digits, comma lists with a zero, category names, any, empty, None
PackedDigits(max_digits) ==
    UNION {[1..n -> {<<"0">>, <<"1">>, <<"2">>}] : n \in 2..max_digits}

ExpandDescriptors(max_digits) ==
    {PyStr(Flatten(d)) : d \in PackedDigits(max_digits)}
    \cup {PyInt(Flatten(d)) : d \in {p \in PackedDigits(max_digits) : p[1] # <<"0">>}}
    \cup {PyStr(<<"0">>), PyStr(<<"1">>), PyInt(<<"0">>),
          CommaList(<< <<"1">>, <<"0">> >>), CommaList(<< <<"0">>, <<"2">>, <<"0">> >>),
          PyStr(<<"flower">>), PyStr(<<"wind">>), PyStr(<<"winds">>), PyStr(<<"dragon">>),
          PyStr(<<"dragons">>), PyStr(<<"any">>), PyStr(<<>>), PyNone}

ExpandShapes(max_digits) ==
    {<<"sequence", constraint_values, suit_role>> :
        constraint_values \in ExpandDescriptors(max_digits),
        suit_role \in {<<"none">>, <<"any">>, same_as \o GroupName(1)}}

EmptyCounts == [tile \in {} |-> 0]

\* the observed hand of scorer.py: (number, suit letter) tuples, counted
ToKey(tile) ==
    IF Len(tile) >= 2 /\ tile[Len(tile)] \in Range(SCORER_SUITS)
          /\ isdigit(SubSeq(tile, 1, Len(tile) - 1))
    THEN Tile(int(SubSeq(tile, 1, Len(tile) - 1)), tile[Len(tile)])
    ELSE Tile(0, tile[1])

ObservedCounts(tiles) == Counter(SeqMap(ToKey, tiles))

(***************************************************************************)
(* State machine                                                           *)
(***************************************************************************)
genVars == <<pattern_idx, complete_hands, skipped, first_hand_ids>>
playVars == <<key_idx, all_playable_hands, playable_hand_counter, first_playable_ids>>
rankVars == <<score_idx, last_score, best_patterns, highest_score>>
matchVars == <<combo_idx, group_idx, Suit_Assignments>>
scoreVars == <<temp_hand, total_score, groups_to_process, proc_idx>>

Idle ==
    /\ run = 1
    /\ assignments = <<>>
    /\ hand = <<>>
    /\ pattern_idx = 0
    /\ complete_hands = <<>>
    /\ skipped = <<>>
    /\ first_hand_ids = <<>>
    /\ key_idx = 0
    /\ all_playable_hands = <<>>
    /\ playable_hand_counter = 0
    /\ first_playable_ids = <<>>
    /\ score_idx = 0
    /\ last_score = 0
    /\ best_patterns = <<>>
    /\ highest_score = 0
    /\ combo_idx = 0
    /\ group_idx = 0
    /\ Suit_Assignments = <<>>
    /\ temp_hand = EmptyCounts
    /\ total_score = 0
    /\ groups_to_process = <<>>
    /\ proc_idx = 0

InitSuit ==
    /\ patterns \in {<<MkPattern(<<"2025">>, 1, <<"K1">>, groups)>> : groups \in SuitTemplates(MaxGroups)}
    /\ hand_counts = EmptyCounts
    /\ pc = "suit"
    /\ Idle

InitHand ==
    /\ patterns \in {<<MkPattern(<<"2025">>, 1, <<"K1">>, groups)>> : groups \in TemplatesOf(HandShapes, MaxHandGroups)}
    /\ hand_counts = EmptyCounts
    /\ pc = "hand_start"
    /\ Idle

InitGroup ==
    /\ patterns \in {<<MkPattern(<<"2025">>, 1, <<"K1">>, groups)>> : groups \in TemplatesOf(GroupShapes, 1)}
    /\ hand_counts = EmptyCounts
    /\ pc = "hand_start"
    /\ Idle

InitExpand ==
    /\ patterns \in {<<MkPattern(<<"2025">>, 1, <<"K1">>, groups)>> :
                        groups \in TemplatesOf(ExpandShapes(MaxDigits), 1)}
    /\ hand_counts = EmptyCounts
    /\ pc = "hand_start"
    /\ Idle

InitResolve ==
    /\ patterns \in {<<MkPattern(<<"2025">>, 1, <<"K1">>, groups)>> :
                        groups \in TemplatesOf(ResolveShapes, MaxResolveGroups)}
    /\ hand_counts = EmptyCounts
    /\ pc = "hand_start"
    /\ Idle

InitMatch ==
    /\ patterns \in {<<MkPattern(<<"2025">>, 1, <<"K1">>, groups)>> :
                        groups \in MatchTemplates(MaxMatchGroups)}
    /\ hand_counts = EmptyCounts
    /\ pc = "m_start"
    /\ Idle

InitAll ==
    /\ patterns \in Collections(MaxAllGroups, MaxPatterns)
    /\ hand_counts = EmptyCounts
    /\ pc = "gen_start"
    /\ Idle

InitRank ==
    /\ patterns \in Catalogs(RankTemplates, MaxCatalog)
    /\ hand_counts \in RankHands(MaxCount - 1)
    /\ pc = "rank_start"
    /\ Idle

InitPairs ==
    /\ patterns \in {<<p>> : p \in PairTemplates}
    /\ hand_counts \in PairHands(MaxCount)
    /\ pc = "rank_start"
    /\ Idle

InitScore ==
    /\ patterns \in {<<p>> : p \in ScoreTemplates(MaxScoreGroups)}
    /\ hand_counts \in ScoreHands(MaxCount)
    /\ pc = "s_start"
    /\ Idle

InitPure == InitScore \/ InitMatch

\* generate_suit_combinations(pattern['Groups'])
CallSuitCombinations ==
    /\ pc = "suit"
    /\ assignments' = generate_suit_combinations(patterns[1].Groups)
    /\ pc' = "play_start"
    /\ UNCHANGED <<patterns, scoreVars, matchVars, hand_counts, run, hand, genVars, playVars, rankVars>>

\* generate_complete_hand_with_assignments for one suit and one value assignment
GenerateHand ==
    /\ pc = "hand_start"
    /\ LET suit_combinations == generate_suit_combinations(patterns[1].Groups)
           value_combinations == generate_constraint_value_combinations(patterns[1])
       IN  \E j \in 1..Len(suit_combinations), i \in 1..Len(value_combinations) :
              hand' = generate_complete_hand_with_assignments(
                          patterns[1], suit_combinations[j], value_combinations[i])
    /\ pc' = "hand"
    /\ UNCHANGED <<patterns, scoreVars, matchVars, hand_counts, run, assignments, genVars, playVars, rankVars>>

\* score_hand_for_pattern on the tiles of the generated hand, against its template
ScoreGenerated ==
    /\ pc = "hand"
    /\ hand_counts' = ObservedCounts(hand.required_tiles)
    /\ last_score' = score_hand_for_pattern(hand_counts', patterns[1])
    /\ pc' = "done"
    /\ UNCHANGED <<patterns, scoreVars, matchVars, run, assignments, hand, genVars, playVars,
                   score_idx, best_patterns, highest_score>>

\* generate_all_complete_hands, line 464
GenStart ==
    /\ pc = "gen_start"
    /\ complete_hands' = <<>>
    /\ skipped' = <<>>
    /\ pattern_idx' = 1
    /\ pc' = "gen"
    /\ UNCHANGED <<patterns, scoreVars, matchVars, hand_counts, run, assignments, hand, first_hand_ids,
                   playVars, rankVars>>

\* generate_all_complete_hands, one iteration of the loop of line 466
GenPattern ==
    /\ pc = "gen"
    /\ pattern_idx <= Len(patterns)
    /\ complete_hands' = complete_hands \o HandsOfPattern(patterns[pattern_idx])
    /\ skipped' = IF TotalCombinations(patterns[pattern_idx]) > Ceiling
                  THEN Append(skipped, pattern_idx) ELSE skipped
    /\ pattern_idx' = pattern_idx + 1
    /\ UNCHANGED <<patterns, scoreVars, matchVars, hand_counts, pc, run, assignments, hand, first_hand_ids,
                   playVars, rankVars>>

HandIds(hands) == [i \in 1..Len(hands) |-> hands[i].hand_id]

\* generate_all_complete_hands, line 496
GenReturn ==
    /\ pc = "gen"
    /\ pattern_idx > Len(patterns)
    /\ IF run = 1
       THEN /\ first_hand_ids' = HandIds(complete_hands)
            /\ run' = 2
            /\ pc' = "gen_start"
       ELSE /\ first_hand_ids' = first_hand_ids
            /\ run' = 1
            /\ pc' = "play_start"
    /\ UNCHANGED <<patterns, scoreVars, matchVars, hand_counts, assignments, hand, pattern_idx, complete_hands,
                   skipped, playVars, rankVars>>

\* generate_playable_hands, lines 18-23
PlayStart ==
    /\ pc = "play_start"
    /\ all_playable_hands' = <<>>
    /\ key_idx' = 1
    /\ pc' = "play"
    /\ UNCHANGED <<patterns, scoreVars, matchVars, hand_counts, run, assignments, hand, genVars,
                   playable_hand_counter, first_playable_ids, rankVars>>

\* generate_playable_hands, one iteration of the loop of line 25
PlayKey ==
    /\ pc = "play"
    /\ key_idx <= Len(HandKeys(patterns, <<>>))
    /\ LET hand_key == HandKeys(patterns, <<>>)[key_idx]
           hands == PlayableHandsOfKey(SubPatterns(patterns, hand_key), hand_key, 1)
       IN  /\ all_playable_hands' = all_playable_hands \o hands
           /\ playable_hand_counter' = 1 + Len(hands)
    /\ key_idx' = key_idx + 1
    /\ UNCHANGED <<patterns, scoreVars, matchVars, hand_counts, pc, run, assignments, hand, genVars,
                   first_playable_ids, rankVars>>

PlayableIds(hands) == [i \in 1..Len(hands) |-> hands[i].Hand_ID]

\* generate_playable_hands, line 89
PlayReturn ==
    /\ pc = "play"
    /\ key_idx > Len(HandKeys(patterns, <<>>))
    /\ IF run = 1
       THEN /\ first_playable_ids' = PlayableIds(all_playable_hands)
            /\ run' = 2
            /\ pc' = "play_start"
       ELSE /\ first_playable_ids' = first_playable_ids
            /\ run' = run
            /\ pc' = "done"
    /\ UNCHANGED <<patterns, scoreVars, matchVars, hand_counts, assignments, hand, genVars, key_idx,
                   all_playable_hands, playable_hand_counter, rankVars>>

\* find_best_pattern, lines 103-104
RankStart ==
    /\ pc = "rank_start"
    /\ best_patterns' = <<>>
    /\ highest_score' = -1
    /\ score_idx' = 1
    /\ pc' = "rank"
    /\ UNCHANGED <<patterns, scoreVars, matchVars, hand_counts, run, assignments, hand, genVars, playVars,
                   last_score>>

\* find_best_pattern, one iteration of the loop of line 106
RankPattern ==
    /\ pc = "rank"
    /\ score_idx <= Len(patterns)
    /\ LET score == score_hand_for_pattern(hand_counts, patterns[score_idx])
           best == RankOne([best_patterns |-> best_patterns, highest_score |-> highest_score],
                           patterns[score_idx], score)
       IN  /\ last_score' = score
           /\ best_patterns' = best.best_patterns
           /\ highest_score' = best.highest_score
    /\ score_idx' = score_idx + 1
    /\ UNCHANGED <<patterns, scoreVars, matchVars, hand_counts, pc, run, assignments, hand, genVars, playVars>>

\* find_best_pattern, line 123
RankReturn ==
    /\ pc = "rank"
    /\ score_idx > Len(patterns)
    /\ pc' = "done"
    /\ UNCHANGED <<patterns, scoreVars, matchVars, hand_counts, run, assignments, hand, genVars, playVars, rankVars>>

\* generate_playable_hands on one pattern, lines 18-26
MatchStart ==
    /\ pc = "m_start"
    /\ all_playable_hands' = <<>>
    /\ playable_hand_counter' = 1
    /\ combo_idx' = 1
    /\ pc' = "m_combo"
    /\ UNCHANGED <<patterns, scoreVars, hand_counts, run, assignments, hand, genVars, key_idx,
                   first_playable_ids, rankVars, group_idx, Suit_Assignments>>

\* lines 49-57: the next suit combination, its primary roles assigned
MatchCombo ==
    /\ pc = "m_combo"
    /\ combo_idx <= Len(PlayableSuitCombinations(patterns[1]))
    /\ Suit_Assignments' = AssignPrimary(SuitRolesNeeded(patterns[1]),
                                PlayableSuitCombinations(patterns[1])[combo_idx],
                                patterns[1].Groups, <<>>)
    /\ group_idx' = 1
    /\ pc' = "m_same_as"
    /\ UNCHANGED <<patterns, scoreVars, hand_counts, run, assignments, hand, genVars, playVars,
                   rankVars, combo_idx>>

\* lines 60-65: the same_as role of the next group
MatchSameAs ==
    /\ pc = "m_same_as"
    /\ group_idx <= Len(patterns[1].Groups)
    /\ Suit_Assignments' = ApplySameAs(patterns[1].Groups[group_idx], Suit_Assignments)
    /\ pc' = "m_must_match"
    /\ UNCHANGED <<patterns, scoreVars, hand_counts, run, assignments, hand, genVars, playVars,
                   rankVars, combo_idx, group_idx>>

\* lines 67-81: the must-match reference of the same group
MatchMustMatch ==
    /\ pc = "m_must_match"
    /\ Suit_Assignments' = ApplyMustMatch(patterns[1].Groups[group_idx], patterns[1].Groups,
                                          Suit_Assignments)
    /\ group_idx' = group_idx + 1
    /\ pc' = "m_same_as"
    /\ UNCHANGED <<patterns, scoreVars, hand_counts, run, assignments, hand, genVars, playVars,
                   rankVars, combo_idx>>

\* lines 83-87: the hand gets its Hand_ID and is appended
MatchEmit ==
    /\ pc = "m_same_as"
    /\ group_idx > Len(patterns[1].Groups)
    /\ all_playable_hands' = Append(all_playable_hands,
            [Pattern |-> patterns[1],
             Suit_Assignments |-> Suit_Assignments,
             Hand_ID |-> patterns[1].Hands_Key \o <<"-">> \o str(playable_hand_counter)])
    /\ playable_hand_counter' = playable_hand_counter + 1
    /\ combo_idx' = combo_idx + 1
    /\ pc' = "m_combo"
    /\ UNCHANGED <<patterns, scoreVars, hand_counts, run, assignments, hand, genVars, key_idx,
                   first_playable_ids, rankVars, group_idx, Suit_Assignments>>

\* line 89
MatchReturn ==
    /\ pc = "m_combo"
    /\ combo_idx > Len(PlayableSuitCombinations(patterns[1]))
    /\ pc' = "done"
    /\ UNCHANGED <<patterns, scoreVars, hand_counts, run, assignments, hand, genVars, playVars,
                   rankVars, matchVars>>

\* score_hand_for_pattern, lines 18-19
ScoreStart ==
    /\ pc = "s_start"
    /\ temp_hand' = hand_counts
    /\ total_score' = 0
    /\ pc' = "s_section"
    /\ UNCHANGED <<patterns, hand_counts, run, assignments, hand, genVars, playVars, matchVars,
                   rankVars, groups_to_process, proc_idx>>

\* lines 22-26: the ALL PAIRS section returns at once
ScoreAllPairs ==
    /\ pc = "s_section"
    /\ patterns[1].Section = <<"ALL PAIRS">>
    /\ last_score' = AllPairsScore(temp_hand)
    /\ pc' = "done"
    /\ UNCHANGED <<patterns, hand_counts, run, assignments, hand, genVars, playVars, matchVars,
                   scoreVars, score_idx, best_patterns, highest_score>>

\* lines 29-35
ScoreSort ==
    /\ pc = "s_section"
    /\ patterns[1].Section # <<"ALL PAIRS">>
    /\ groups_to_process' = GroupsToProcess(patterns[1].Groups)
    /\ proc_idx' = 1
    /\ pc' = "s_group"
    /\ UNCHANGED <<patterns, hand_counts, run, assignments, hand, genVars, playVars, matchVars,
                   rankVars, temp_hand, total_score>>

\* lines 37-91: one iteration of the loop over groups_to_process
ScoreGroup ==
    /\ pc = "s_group"
    /\ proc_idx <= Len(groups_to_process)
    /\ LET st == ProcessGroup([temp_hand |-> temp_hand, total_score |-> total_score],
                              groups_to_process[proc_idx])
       IN  /\ temp_hand' = st.temp_hand
           /\ total_score' = st.total_score
    /\ hand_counts' = CallerCounts(hand_counts, temp_hand')
    /\ proc_idx' = proc_idx + 1
    /\ UNCHANGED <<patterns, pc, run, assignments, hand, genVars, playVars, matchVars,
                   rankVars, groups_to_process>>

\* line 93
ScoreReturn ==
    /\ pc = "s_group"
    /\ proc_idx > Len(groups_to_process)
    /\ last_score' = total_score
    /\ pc' = "done"
    /\ UNCHANGED <<patterns, hand_counts, run, assignments, hand, genVars, playVars, matchVars,
                   scoreVars, score_idx, best_patterns, highest_score>>

NextSuit == CallSuitCombinations \/ PlayStart \/ PlayKey \/ PlayReturn
NextHand == GenerateHand \/ ScoreGenerated
NextAll == GenStart \/ GenPattern \/ GenReturn \/ PlayStart \/ PlayKey \/ PlayReturn
NextRank == RankStart \/ RankPattern \/ RankReturn
NextMatch == MatchStart \/ MatchCombo \/ MatchSameAs \/ MatchMustMatch \/ MatchEmit \/ MatchReturn
NextScore == ScoreStart \/ ScoreAllPairs \/ ScoreSort \/ ScoreGroup \/ ScoreReturn
NextPure == ScoreStart \/ ScoreAllPairs \/ ScoreSort \/ ScoreGroup \/ ScoreReturn
                \/ MatchStart \/ MatchCombo \/ MatchSameAs \/ MatchMustMatch \/ MatchEmit
                \/ MatchReturn

Init == InitAll
Next == NextAll

Spec == Init /\ [][Next]_vars
SpecSuit == InitSuit /\ [][NextSuit]_vars
SpecHand == InitHand /\ [][NextHand]_vars
SpecRank == InitRank /\ [][NextRank]_vars
SpecPairs == InitPairs /\ [][NextRank]_vars
SpecGroup == InitGroup /\ [][NextHand]_vars
SpecResolve == InitResolve /\ [][NextHand]_vars
SpecMatch == InitMatch /\ [][NextMatch]_vars
SpecExpand == InitExpand /\ [][NextHand]_vars
SpecScore == InitScore /\ [][NextScore]_vars
SpecPure == InitPure /\ [][NextPure]_vars

(***************************************************************************)
(* Properties                                                              *)
(***************************************************************************)
SuitNames == Range(DictKeys(SUITS))

PrimaryRolesIn(groups) ==
    {role \in Range(PrimaryRoles) : \E g \in 1..Len(groups) : groups[g].Suit_Role = role}

HasSameAs(groups) == \E g \in 1..Len(groups) : startswith(groups[g].Suit_Role, same_as)

RECURSIVE Factorial(_)
Factorial(n) == IF n = 0 THEN 1 ELSE n * Factorial(n - 1)

\* 3!/(3-k)!
NumPermutations(k) == Factorial(3) \div Factorial(3 - k)

\* the suit an assignment gives to the groups of a role (the first such group)
SuitOfRole(assignment, groups, role) ==
    LET g == CHOOSE g \in 1..Len(groups) :
                /\ groups[g].Suit_Role = role
                /\ \A h \in 1..(g - 1) : groups[h].Suit_Role # role
    IN  DictGet(assignment, groups[g].Group, None)

RoleMaps(groups) ==
    {[role \in PrimaryRolesIn(groups) |-> SuitOfRole(assignments[c], groups, role)] :
        c \in 1..Len(assignments)}

Injections(roles) ==
    {f \in [roles -> SuitNames] : \A r1, r2 \in roles : f[r1] = f[r2] => r1 = r2}

SuitCombinationsReturned == pc \in {"play_start", "play", "done"}

\* C1: with k of the roles any/second/third present (k in 1..3),
\* generate_suit_combinations returns 3!/(3-k)! assignments, one per ordered
\* k-permutation of the three suits, whatever same_as groups are present, and
\* generate_playable_hands emits as many hands for the template.
C1_PermutationCount ==
    LET groups == patterns[1].Groups
        k == Cardinality(PrimaryRolesIn(groups))
    IN  k \in 1..3 =>
            /\ SuitCombinationsReturned =>
                    /\ Len(assignments) = NumPermutations(k)
                    /\ RoleMaps(groups) = Injections(PrimaryRolesIn(groups))
            /\ pc = "done" => Len(all_playable_hands) = NumPermutations(k)

C1_Witness ==
    /\ pc = "done"
    /\ Cardinality(PrimaryRolesIn(patterns[1].Groups)) = 2
    /\ HasSameAs(patterns[1].Groups)
    /\ Len(assignments) = 6
    /\ Len(all_playable_hands) = 6

\* C2: in every assignment of generate_suit_combinations, groups of different
\* primary roles have different suits, groups of the same primary role have
\* the same suit, and every such suit is one of the three suits.
C2_RolesArePermuted ==
    SuitCombinationsReturned =>
        LET groups == patterns[1].Groups
            Primary == {g \in 1..Len(groups) : IsPrimary(groups[g].Suit_Role)}
        IN  \A c \in 1..Len(assignments) :
                LET SuitOf(g) == DictGet(assignments[c], groups[g].Group, None)
                IN  \A g, h \in Primary :
                        /\ SuitOf(g) \in SuitNames
                        /\ (groups[g].Suit_Role = groups[h].Suit_Role) <=> (SuitOf(g) = SuitOf(h))

C2_Witness ==
    /\ SuitCombinationsReturned
    /\ Len(patterns[1].Groups) = 3
    /\ patterns[1].Groups[1].Suit_Role = <<"second">>
    /\ patterns[1].Groups[2].Suit_Role = <<"any">>
    /\ patterns[1].Groups[3].Suit_Role = <<"second">>
    /\ Len(assignments) = 6
    /\ DictGet(assignments[1], GroupName(1), None) = <<"bams">>
    /\ DictGet(assignments[1], GroupName(2), None) = <<"dots">>
    /\ DictGet(assignments[1], GroupName(3), None) = <<"bams">>

HandGenerated == pc \in {"hand", "done"}

\* C3: every hand of generate_complete_hand_with_assignments with
\* generation_success = true has total_tiles = 14.
C3_SuccessHasFourteenTiles ==
    (HandGenerated /\ hand.generation_success) => hand.total_tiles = HandSize

NoPrimaryRole(pattern) == PrimaryRolesIn(pattern.Groups) = {}

NumValueCombinations(pattern) == Len(generate_constraint_value_combinations(pattern))

Loops == pc = "gen" /\ pattern_idx <= Len(patterns)

\* C4 as stated: a template without a primary suit role adds to the output
\* of generate_all_complete_hands as many hands as it has value assignments.
C4_NoRoleCountIsValueCount ==
    [][(Loops /\ NoPrimaryRole(patterns[pattern_idx])) =>
            Len(complete_hands') =
                Len(complete_hands) + NumValueCombinations(patterns[pattern_idx])]_vars

\* C4, amended: a template without a primary suit role adds as many hands as
\* it has value assignments when these are at most 100, and none otherwise.
C4_NoRoleCountUnderCeiling ==
    [][(Loops /\ NoPrimaryRole(patterns[pattern_idx])) =>
            Len(complete_hands') =
                Len(complete_hands)
                  + (IF NumValueCombinations(patterns[pattern_idx]) <= Ceiling
                     THEN NumValueCombinations(patterns[pattern_idx]) ELSE 0)]_vars

C4_Witness ==
    /\ pc = "gen"
    /\ pattern_idx = 2
    /\ NoPrimaryRole(patterns[1])
    /\ NumValueCombinations(patterns[1]) = 10
    /\ Len(complete_hands) = 10

\* C5: a template whose suit assignments times value assignments exceed 100
\* adds no hand at all (it is skipped as a whole and reported), and a
\* template processed after it adds all of its own hands to the untouched
\* output.
C5_CeilingSkipsWholeTemplate ==
    [][Loops =>
        LET pattern == patterns[pattern_idx]
            total == NumValueCombinations(pattern) * Len(generate_suit_combinations(pattern.Groups))
            added == SubSeq(complete_hands', Len(complete_hands) + 1, Len(complete_hands'))
        IN  /\ pattern_idx' = pattern_idx + 1
            /\ SubSeq(complete_hands', 1, Len(complete_hands)) = complete_hands
            /\ total > Ceiling =>
                    /\ complete_hands' = complete_hands
                    /\ skipped' = Append(skipped, pattern_idx)
            /\ total <= Ceiling =>
                    /\ Len(added) = total
                    /\ \A i \in 1..Len(added) : added[i].pattern_key = pattern.Hands_Key
                    /\ skipped' = skipped]_vars

C5_Witness ==
    /\ pc = "gen"
    /\ pattern_idx = 3
    /\ skipped = <<1>>
    /\ patterns[2].Hands_Key = <<"K2">>
    /\ Len(complete_hands) = 12
    /\ \A i \in 1..12 : complete_hands[i].pattern_key = <<"K2">>

NoCompetition(pattern) ==
    \A g, h \in 1..Len(pattern.Groups) :
        g # h => Range(LiteralsOf(pattern.Groups[g].Constraint_Values.s))
                    \cap Range(LiteralsOf(pattern.Groups[h].Constraint_Values.s)) = {}

\* C6: for a template no two groups of which compete for the same literal,
\* the score of the tiles of a hand generated from it, against the template
\* itself, is 14.
C6_RoundTripScoresFourteen ==
    (/\ pc = "done"
     /\ hand.generation_success
     /\ hand.total_tiles = HandSize
     /\ NoCompetition(patterns[1])) => last_score = HandSize

Scored == pc \in {"rank", "done"} /\ score_idx > 1

\* the complete pairs of a tile: j = 1, 2, ... with 2j copies at hand
CompletePairs(counts) ==
    {<<tile, j>> \in (DOMAIN counts) \X (1..HandSize) : 2 * j <= counts[tile]}

TilesWithCount(counts, n) == Cardinality({tile \in DOMAIN counts : counts[tile] = n})

\* C7: in the section ALL PAIRS the score is twice the number of complete
\* pairs of equal tiles in the observed hand, whatever the groups of the
\* template; seven different pairs score 14, six pairs and two singles 12.
C7_AllPairsScore ==
    (Scored /\ patterns[score_idx - 1].Section = <<"ALL PAIRS">>) =>
        /\ last_score = 2 * Cardinality(CompletePairs(hand_counts))
        /\ TilesWithCount(hand_counts, 2) = 7 /\ TilesWithCount(hand_counts, 0) = 1
                => last_score = 14
        /\ TilesWithCount(hand_counts, 2) = 6 /\ TilesWithCount(hand_counts, 1) = 2
                => last_score = 12

C7_Witness ==
    /\ Scored
    /\ patterns[1].Section = <<"ALL PAIRS">>
    /\ Len(patterns[1].Groups) = 2
    /\ TilesWithCount(hand_counts, 2) = 6
    /\ TilesWithCount(hand_counts, 1) = 2
    /\ last_score = 12

ScoreOf(i) == score_hand_for_pattern(hand_counts, patterns[i])

MaxScore == CHOOSE m \in {ScoreOf(i) : i \in 1..Len(patterns)} :
                \A i \in 1..Len(patterns) : ScoreOf(i) <= m

AtMaximum == LET AtMax(i) == ScoreOf(i) = MaxScore
             IN  Filter(AtMax, [i \in 1..Len(patterns) |-> i])

\* C9: when the maximum score over the catalog is positive, find_best_pattern
\* returns the templates scoring that maximum, all of them and no other, in
\* catalog order, and the maximum as the highest score.
C9_AllTiedAtPositiveMaximum ==
    (pc = "done" /\ Len(patterns) > 0 /\ MaxScore > 0) =>
        /\ highest_score = MaxScore
        /\ best_patterns = [n \in 1..Len(AtMaximum) |->
                                BestEntry(patterns[AtMaximum[n]], MaxScore)]

C9_Witness ==
    /\ pc = "done"
    /\ Len(patterns) = 3
    /\ ScoreOf(1) = 2 /\ ScoreOf(2) = 0 /\ ScoreOf(3) = 2
    /\ Len(best_patterns) = 2
    /\ highest_score = 2

\* C10: a template scoring 0 is in the list returned by find_best_pattern
\* only when it is the one template that attains the highest score.
C10_ZeroOnlyAsUniqueMaximum ==
    pc = "done" =>
        \A i \in 1..Len(patterns) :
            (ScoreOf(i) = 0 /\ BestEntry(patterns[i], 0) \in Range(best_patterns)) =>
                \A j \in 1..Len(patterns) : ScoreOf(j) = MaxScore => j = i

KnownTypes == {"single", "pair", "pung", "kong", "quint", "sequence"}

CopyTypes == {"single", "pair", "pung", "kong", "quint"}

Categories == {<<"flower">>, <<"wind">>, <<"winds">>, <<"dragon">>, <<"dragons">>}

\* the literals a descriptor lists: none for a category, a wildcard, nothing or null
ListedLiterals(constraint_values) ==
    IF constraint_values.t = "None" \/ constraint_values.s \in Categories
          \/ constraint_values.s \in {<<>>, <<"any">>}
    THEN <<>>
    ELSE LiteralsOf(constraint_values.s)

IsUnknownLiteral(value) ==
    ~isdigit(value) /\ value \notin Range(WINDS) /\ value \notin Range(DRAGONS)

UnknownLiteralSentinel(value) == <<"UNKNOWN:">> \o value

UnknownTypeSentinel(constraint_type) == <<"UNKNOWN_CONSTRAINT:", constraint_type>>

\* the literal a group of the generated hand stands for: the one its value assignment
\* chooses, and every listed literal without a choice or in a sequence
StandsFor(group, value) ==
    /\ value \in Range(ListedLiterals(group.Constraint_Values))
    /\ (group.Constraint_Type \in CopyTypes /\ DictHas(hand.value_assignments, group.Group))
            => value = DictGet(hand.value_assignments, group.Group, None)
    /\ (group.Constraint_Type \in CopyTypes /\ ~DictHas(hand.value_assignments, group.Group))
            => value = ListedLiterals(group.Constraint_Values)[1]

\* C11: an unknown literal of a group becomes the sentinel UNKNOWN:<value> in the
\* tile list of the hand generated for it, an unknown constraint type the
\* sentinel UNKNOWN_CONSTRAINT:<type>, and every hand with such a sentinel in
\* its tile list has generation_success = false.
C11_UnknownIsSentinelInHand ==
    HandGenerated =>
        /\ \A g \in 1..Len(patterns[1].Groups) :
              LET group == patterns[1].Groups[g]
              IN  /\ group.Constraint_Type \notin KnownTypes =>
                        UnknownTypeSentinel(group.Constraint_Type) \in Range(hand.group_tiles[g])
                  /\ group.Constraint_Type \in KnownTypes =>
                        \A value \in Range(ListedLiterals(group.Constraint_Values)) :
                            (IsUnknownLiteral(value) /\ StandsFor(group, value)) =>
                                UnknownLiteralSentinel(value) \in Range(hand.group_tiles[g])
        /\ (\E i \in 1..Len(hand.required_tiles) : HasUnknown(hand.required_tiles[i]))
                => ~hand.generation_success

UNRESOLVED_REFERENCE == <<"UNRESOLVED_REFERENCE">>

SuitLetters == Range(DictValues(SUITS))

IsSentinel(tile) == HasUnknown(tile) \/ contains(tile, "UNRESOLVED_REFERENCE")

\* C12: a group whose suit in the assignment is the unresolved-reference
\* sentinel shows a sentinel in the tile list of the hand, gets no tile of a
\* real suit, and the hand has generation_success = false.
C12_UnresolvedReferenceIsVisible ==
    HandGenerated =>
        \A g \in 1..Len(patterns[1].Groups) :
            DictGet(hand.suit_assignments, patterns[1].Groups[g].Group, None) = UNRESOLVED_REFERENCE =>
                /\ ~hand.generation_success
                /\ \E i \in 1..Len(hand.group_tiles[g]) : IsSentinel(hand.group_tiles[g][i])
                /\ \A i \in 1..Len(hand.group_tiles[g]) :
                      LET tile == hand.group_tiles[g][i]
                      IN  tile[Len(tile)] \notin SuitLetters

CopiesOf(constraint_type) ==
    CASE constraint_type = "single" -> 1
      [] constraint_type = "pair" -> 2
      [] constraint_type = "pung" -> 3
      [] constraint_type = "kong" -> 4
      [] constraint_type = "quint" -> 5

\* the number of literals a descriptor stands for: the members of a category, the digits
\* of a packed number, the items of a comma-separated list
NumLiterals(constraint_values) ==
    LET s == constraint_values.s
    IN  IF constraint_values.t = "None" \/ s \in {<<>>, <<"any">>} THEN 0
        ELSE IF s = <<"flower">> THEN Len(FLOWERS)
        ELSE IF s \in {<<"wind">>, <<"winds">>} THEN Len(WINDS)
        ELSE IF s \in {<<"dragon">>, <<"dragons">>} THEN Len(DRAGONS)
        ELSE IF \A i \in 1..Len(s) : s[i] \in DigitChars THEN Len(s)
        ELSE 1 + Cardinality({i \in 1..Len(s) : s[i] = ","})

IsFlowerKong(group) ==
    group.Constraint_Type = "kong" /\ group.Constraint_Values = PyStr(<<"flower">>)

\* C13: the tiles of a group are 1, 2, 3, 4, 5 copies of one tile identifier for
\* a single, pair, pung, kong, quint (copies of a sentinel when the descriptor
\* resolves to nothing), the four different flowers for a kong of 'flower',
\* and one tile per literal of the descriptor for a sequence.
C13_GroupTileCount ==
    HandGenerated =>
        \A g \in 1..Len(patterns[1].Groups) :
            LET group == patterns[1].Groups[g]
                tiles == hand.group_tiles[g]
            IN  /\ (group.Constraint_Type \in CopyTypes /\ ~IsFlowerKong(group)) =>
                      /\ Len(tiles) = CopiesOf(group.Constraint_Type)
                      /\ \A i \in 1..Len(tiles) : tiles[i] = tiles[1]
                      /\ NumLiterals(group.Constraint_Values) = 0 => HasUnknown(tiles[1])
                /\ IsFlowerKong(group) =>
                      /\ tiles = FLOWERS
                      /\ Cardinality(Range(tiles)) = CopiesOf("kong")
                /\ group.Constraint_Type = "sequence" =>
                      Len(tiles) = NumLiterals(group.Constraint_Values)

C13_Witness ==
    /\ HandGenerated
    /\ patterns[1].Groups[1].Constraint_Type = "quint"
    /\ patterns[1].Groups[1].Constraint_Values = PyStr(<<"any">>)
    /\ hand.group_tiles[1] = Repeat(<<"UNKNOWN_QUINT">>, 5)
    /\ ~hand.generation_success

ValueTypes == {"pair", "pung", "kong", "quint"}

IsAlternativeGroup(group) == group.Constraint_Type \in ValueTypes /\ IsMultiValue(group)

\* the literal is part of the tile identifier
CarriesValue(tile, value) ==
    \E i \in 1..(Len(tile) - Len(value) + 1) : SubSeq(tile, i, i + Len(value) - 1) = value

\* C14: in the hand generated for a value assignment, the tiles of a pair, pung,
\* kong or quint with alternatives 'a,b' carry the literal the assignment
\* chooses for the group, and two value assignments that differ on such a
\* group give different tile lists under the same suit assignment.
C14_ChosenValueIsCarried ==
    HandGenerated =>
        LET groups == patterns[1].Groups
            value_combinations == generate_constraint_value_combinations(patterns[1])
            TilesFor(value_assignment) ==
                generate_complete_hand_with_assignments(
                    patterns[1], hand.suit_assignments, value_assignment).required_tiles
        IN  /\ \A g \in 1..Len(groups) :
                  IsAlternativeGroup(groups[g]) =>
                      \A i \in 1..Len(hand.group_tiles[g]) :
                          CarriesValue(hand.group_tiles[g][i],
                                       DictGet(hand.value_assignments, groups[g].Group, None))
            /\ \A a, b \in 1..Len(value_combinations) :
                  (\E g \in 1..Len(groups) :
                      /\ IsAlternativeGroup(groups[g])
                      /\ DictGet(value_combinations[a], groups[g].Group, None)
                            # DictGet(value_combinations[b], groups[g].Group, None))
                  => TilesFor(value_combinations[a]) # TilesFor(value_combinations[b])

\* C15: no two hands of the list generate_all_complete_hands builds have the
\* same hand_id, also when templates of the collection share a Hands_Key.
C15_HandIdsUnique ==
    \A i, j \in 1..Len(complete_hands) :
        complete_hands[i].hand_id = complete_hands[j].hand_id => i = j

PlayableIdsOfKey(hand_key) ==
    LET OfKey(h) == h.Pattern.Hands_Key = hand_key
    IN  PlayableIds(Filter(OfKey, all_playable_hands))

\* C16: the Hand_IDs generate_playable_hands gives to the hands of one key are
\* '<key>-1', '<key>-2', ... in the order of emission, over all templates of
\* the key, and the Hand_IDs of one call are pairwise different.
C16_PlayableIdsSequential ==
    /\ \A p \in 1..Len(patterns) :
          LET ids == PlayableIdsOfKey(patterns[p].Hands_Key)
          IN  \A n \in 1..Len(ids) : ids[n] = patterns[p].Hands_Key \o <<"-">> \o str(n)
    /\ \A i, j \in 1..Len(all_playable_hands) :
          all_playable_hands[i].Hand_ID = all_playable_hands[j].Hand_ID => i = j

C16_Witness ==
    /\ pc = "done"
    /\ Len(patterns) = 2
    /\ patterns[1].Hands_Key = patterns[2].Hands_Key
    /\ Len(all_playable_hands) = 9
    /\ all_playable_hands[9].Hand_ID = <<"K1", "-", "9">>
    /\ all_playable_hands[9].Pattern = patterns[2]

IsConcreteTile(tile) ==
    \/ Len(tile) = 2 /\ tile[1] \in DigitChars \ {"0"} /\ tile[2] \in SuitLetters
    \/ tile \in Range(WINDS) \cup Range(DRAGONS) \cup Range(FLOWERS)

\* C17: every tile of a hand with generation_success = true is a digit 1-9
\* with a suit letter, a wind, a dragon or a flower; a digit without a suit
\* is in no such hand.
C17_SuccessfulTilesAreConcrete ==
    (HandGenerated /\ hand.generation_success) =>
        \A i \in 1..Len(hand.required_tiles) : IsConcreteTile(hand.required_tiles[i])

\* the step-by-step run of generate_playable_hands returns what the function returns
MatchAgreesWithPlayable ==
    pc = "done" =>
        all_playable_hands = PlayableHandsOfKey(patterns, patterns[1].Hands_Key, 1)

GroupExists(groups, name) == \E g \in 1..Len(groups) : groups[g].Group = name

RefersToGroup(group, groups) ==
    Truthy(group.Constraint_Must_Match) /\ GroupExists(groups, group.Constraint_Must_Match)

SuitIn(suit_assignments, name) == DictGet(suit_assignments, name, None)

\* C18: in every hand generate_playable_hands emits, a group with a must-match
\* reference to a group of the template and that group have the same suit in
\* Suit_Assignments.
C18_MustMatchSuitsIdentical ==
    \A h \in 1..Len(all_playable_hands) :
        LET groups == all_playable_hands[h].Pattern.Groups
        IN  \A g \in 1..Len(groups) :
                RefersToGroup(groups[g], groups) =>
                    SuitIn(all_playable_hands[h].Suit_Assignments, groups[g].Group)
                        = SuitIn(all_playable_hands[h].Suit_Assignments,
                                 groups[g].Constraint_Must_Match)

GroupNames == {GroupName(i) : i \in 1..9}

\* C20: the must-match step of a group G with reference M: when exactly one of
\* G and M has a suit the other gets that suit and nothing else changes; when
\* both or none have a suit, or M is no group of the template, nothing
\* changes; no suit already assigned is changed; the groups are taken once
\* each, in template order.
C20_MustMatchSinglePass ==
    [][pc = "m_must_match" =>
        LET groups == patterns[1].Groups
            G == groups[group_idx].Group
            M == groups[group_idx].Constraint_Must_Match
            refers == RefersToGroup(groups[group_idx], groups)
            hasG == DictHas(Suit_Assignments, G)
            hasM == DictHas(Suit_Assignments, M)
        IN  /\ group_idx' = group_idx + 1
            /\ (refers /\ hasG /\ ~hasM) =>
                  /\ SuitIn(Suit_Assignments', M) = SuitIn(Suit_Assignments, G)
                  /\ \A name \in GroupNames \ {M} :
                        SuitIn(Suit_Assignments', name) = SuitIn(Suit_Assignments, name)
            /\ (refers /\ hasM /\ ~hasG) =>
                  /\ SuitIn(Suit_Assignments', G) = SuitIn(Suit_Assignments, M)
                  /\ \A name \in GroupNames \ {G} :
                        SuitIn(Suit_Assignments', name) = SuitIn(Suit_Assignments, name)
            /\ (~refers \/ (hasG <=> hasM)) => Suit_Assignments' = Suit_Assignments
            /\ \A name \in GroupNames :
                  DictHas(Suit_Assignments, name) =>
                      SuitIn(Suit_Assignments', name) = SuitIn(Suit_Assignments, name)]_vars

C20_Witness ==
    /\ pc = "m_same_as"
    /\ group_idx = 2
    /\ Len(patterns[1].Groups) = 3
    /\ patterns[1].Groups[1].Suit_Role = <<"none">>
    /\ patterns[1].Groups[1].Constraint_Must_Match = GroupName(3)
    /\ patterns[1].Groups[3].Suit_Role = <<"second">>
    /\ SuitIn(Suit_Assignments, GroupName(1)) = <<"bams">>
    /\ SuitIn(Suit_Assignments, GroupName(3)) = <<"bams">>

ReferencedGroup(role) == split(role, ":")[2]

HasPrimaryRole(groups, name) ==
    \E g \in 1..Len(groups) : groups[g].Group = name /\ IsPrimary(groups[g].Suit_Role)

\* C19: in every assignment of generate_suit_combinations a group of role
\* same_as:R has the suit of R when R has a primary role, wherever R stands in
\* the template, and has the unresolved-reference sentinel only when R has
\* no primary role.
C19_SameAsTakesReferencedSuit ==
    SuitCombinationsReturned =>
        LET groups == patterns[1].Groups
        IN  \A c \in 1..Len(assignments), g \in 1..Len(groups) :
                startswith(groups[g].Suit_Role, same_as) =>
                    LET R == ReferencedGroup(groups[g].Suit_Role)
                    IN  /\ HasPrimaryRole(groups, R) =>
                              SuitIn(assignments[c], groups[g].Group) = SuitIn(assignments[c], R)
                        /\ SuitIn(assignments[c], groups[g].Group) = UNRESOLVED_REFERENCE =>
                              ~HasPrimaryRole(groups, R)

\* C21: a template whose suit assignments S times value assignments V are at
\* most 100 (100 included) adds exactly S x V hands behind the hands of the
\* templates before it: the hand at place (i - 1) * S + j is the one of the
\* i-th value assignment and the j-th suit assignment.
C21_ValueMajorUnderCeiling ==
    [][Loops =>
        LET pattern == patterns[pattern_idx]
            V == generate_constraint_value_combinations(pattern)
            S == generate_suit_combinations(pattern.Groups)
            added == SubSeq(complete_hands', Len(complete_hands) + 1, Len(complete_hands'))
        IN  Len(S) * Len(V) <= 100 =>
                /\ SubSeq(complete_hands', 1, Len(complete_hands)) = complete_hands
                /\ Len(added) = Len(S) * Len(V)
                /\ \A i \in 1..Len(V), j \in 1..Len(S) :
                      LET emitted == added[(i - 1) * Len(S) + j]
                      IN  /\ emitted.value_assignments = V[i]
                          /\ emitted.suit_assignments = S[j]
                          /\ emitted = generate_complete_hand_with_assignments(pattern, S[j], V[i])]_vars

C21_Witness ==
    /\ pc = "gen"
    /\ pattern_idx = 3
    /\ Len(generate_suit_combinations(patterns[1].Groups)) = 3
    /\ NumValueCombinations(patterns[1]) = 2
    /\ TotalCombinations(patterns[2]) = 100
    /\ Len(complete_hands) = 106
    /\ complete_hands[2].suit_assignments # complete_hands[1].suit_assignments
    /\ complete_hands[2].value_assignments = complete_hands[1].value_assignments
    /\ complete_hands[7].pattern_key = patterns[2].Hands_Key

\* the step-by-step run of score_hand_for_pattern returns what the function returns
ScoreAgreesWithFunction ==
    pc = "done" => last_score = score_hand_for_pattern(hand_counts, patterns[1])

TemplatePosition(group) ==
    CHOOSE i \in 1..Len(patterns[1].Groups) : patterns[1].Groups[i] = group

TableWeight(constraint_type) ==
    CASE constraint_type = "quint" -> 5
      [] constraint_type = "kong" -> 4
      [] constraint_type \in {"pung", "sequence"} -> 3
      [] constraint_type = "pair" -> 2
      [] constraint_type = "single" -> 1
      [] OTHER -> 0

\* C22: the groups score_hand_for_pattern goes through are the groups of the
\* template, by weight descending (quint 5, kong 4, pung 3, sequence 3, pair 2,
\* single 1, any other type 0), groups of the same weight in template order;
\* the loop takes them one after the other in that order.
C22_DescendingWeightStable ==
    pc = "s_group" =>
        /\ Len(groups_to_process) = Len(patterns[1].Groups)
        /\ Range(groups_to_process) = Range(patterns[1].Groups)
        /\ proc_idx \in 1..(Len(groups_to_process) + 1)
        /\ \A a, b \in 1..Len(groups_to_process) :
              a < b =>
                LET wa == TableWeight(groups_to_process[a].Constraint_Type)
                    wb == TableWeight(groups_to_process[b].Constraint_Type)
                IN  /\ wa >= wb
                    /\ wa = wb => TemplatePosition(groups_to_process[a])
                                    < TemplatePosition(groups_to_process[b])

C22_Witness ==
    /\ pc = "s_group"
    /\ proc_idx = 2
    /\ Len(patterns[1].Groups) = 2
    /\ patterns[1].Groups[1].Constraint_Type = "sequence"
    /\ patterns[1].Groups[2].Constraint_Type = "pung"
    /\ groups_to_process = patterns[1].Groups
    /\ total_score = 3
    /\ temp_hand[Tile(2, "D")] = 0
    /\ temp_hand[Tile(1, "D")] = 2

ScoresGroup == pc = "s_group" /\ proc_idx <= Len(groups_to_process)

RequiredCount(constraint_type) ==
    CASE constraint_type = "pair" -> 2
      [] constraint_type = "pung" -> 3
      [] constraint_type = "kong" -> 4
      [] constraint_type = "quint" -> 5

IsDigitLiteral(constraint_values) ==
    constraint_values.t = "str" /\ isdigit(constraint_values.s)

\* the suits of SCORER_SUITS, in order, whose tile of this value has the count
QualifyingSuits(counts, value, required) ==
    LET Enough(suit) == CounterGet(counts, Tile(value, suit)) >= required
    IN  Filter(Enough, SCORER_SUITS)

\* the step takes `required` copies of one tile and nothing else
TakesCopies(tile, required) ==
    /\ total_score' = total_score + required
    /\ temp_hand' = [temp_hand EXCEPT ![tile] = @ - required]

CopyStep(types) ==
    ScoresGroup =>
        LET group == groups_to_process[proc_idx]
        IN  (group.Constraint_Type \in types /\ IsDigitLiteral(group.Constraint_Values)) =>
                LET value == int(group.Constraint_Values.s)
                    required == RequiredCount(group.Constraint_Type)
                    suits == QualifyingSuits(temp_hand, value, required)
                IN  IF Len(suits) > 0
                    THEN TakesCopies(Tile(value, suits[1]), required)
                    ELSE total_score' = total_score /\ temp_hand' = temp_hand

\* C23: a pung, pair, kong or quint group with a digit literal v takes, at the
\* first suit of D, C, B whose tile (v, suit) has at least the required count
\* (pair 2, pung 3, kong 4, quint 5), exactly that count from that one tile
\* and adds it to the score; with no such suit the step changes neither.
C23_FirstSuitWithEnoughCopies == [][CopyStep({"pung", "pair", "kong", "quint"})]_vars

\* the same without the quint
CopiesOfPungPairKong == [][CopyStep({"pung", "pair", "kong"})]_vars

\* the values a sequence descriptor lists, when they all are numbers
ListsNumbers(constraint_values) ==
    /\ constraint_values.t = "str"
    /\ \A v \in Range(split(constraint_values.s, ",")) : IntParses(v)

ListedValues(constraint_values) ==
    LET parts == split(constraint_values.s, ",")
    IN  [i \in 1..Len(parts) |-> int(strip(parts[i]))]

StrictlyConsecutive(values) == \A i \in 1..(Len(values) - 1) : values[i] + 1 = values[i + 1]

\* the suits of SCORER_SUITS, in order, holding every tile of these values
SuitsHoldingAll(counts, values) ==
    LET Holds(suit) == \A i \in 1..Len(values) : CounterGet(counts, Tile(values[i], suit)) > 0
    IN  Filter(Holds, SCORER_SUITS)

\* the step takes one copy of the tile of each value in the suit, and nothing else
TakesRun(values, suit) ==
    /\ total_score' = total_score + Len(values)
    /\ temp_hand' = [tile \in DOMAIN temp_hand |->
                        IF tile.s = suit /\ tile.v \in Range(values)
                        THEN temp_hand[tile] - 1 ELSE temp_hand[tile]]

\* C24: a sequence group adds the run length and takes one tile of each of its
\* values, in the first suit of D, C, B that holds them all, only if the
\* values of the descriptor are strictly consecutive; a descriptor whose
\* values are not strictly consecutive (1,3,5) adds 0 and takes nothing.
C24_SequenceNeedsConsecutiveValues ==
    [][ScoresGroup =>
        LET group == groups_to_process[proc_idx]
        IN  (group.Constraint_Type = "sequence" /\ ListsNumbers(group.Constraint_Values)) =>
                LET values == ListedValues(group.Constraint_Values)
                    suits == SuitsHoldingAll(temp_hand, values)
                IN  IF StrictlyConsecutive(values) /\ Len(suits) > 0
                    THEN TakesRun(values, suits[1])
                    ELSE total_score' = total_score /\ temp_hand' = temp_hand]_vars

\* the same for the descriptors that are strictly consecutive
ConsecutiveSequenceStep ==
    [][ScoresGroup =>
        LET group == groups_to_process[proc_idx]
        IN  (/\ group.Constraint_Type = "sequence"
             /\ ListsNumbers(group.Constraint_Values)
             /\ StrictlyConsecutive(ListedValues(group.Constraint_Values))) =>
                LET values == ListedValues(group.Constraint_Values)
                    suits == SuitsHoldingAll(temp_hand, values)
                IN  IF Len(suits) > 0
                    THEN TakesRun(values, suits[1])
                    ELSE total_score' = total_score /\ temp_hand' = temp_hand]_vars

TilesIn(counts) == SumOver(counts, DOMAIN counts)

\* C25: outside the ALL PAIRS section, after every group no count of the
\* working multiset is negative and the running score is the number of tiles
\* taken from it so far; the score returned is between 0 and the number of
\* observed tiles.
C25_ScoreIsTilesRemoved ==
    /\ pc = "s_group" =>
          /\ \A tile \in DOMAIN temp_hand : temp_hand[tile] >= 0
          /\ DOMAIN temp_hand = DOMAIN hand_counts
          /\ total_score = TilesIn(hand_counts) - TilesIn(temp_hand)
    /\ (pc = "done" /\ patterns[1].Section # <<"ALL PAIRS">>) =>
          /\ last_score = total_score
          /\ last_score \in 0..TilesIn(hand_counts)

C25_Witness ==
    /\ pc = "s_group"
    /\ proc_idx = 3
    /\ total_score = 7
    /\ temp_hand[Tile(1, "D")] = 0
    /\ temp_hand[Tile(1, "C")] = 1
    /\ TilesIn(hand_counts) = 10

IsPackedDigits(constraint_values) ==
    /\ constraint_values.t \in {"str", "int"}
    /\ isdigit(constraint_values.s)
    /\ Len(constraint_values.s) > 1

WhiteDragon == <<"white">>

SuitLetterOf(suit) ==
    CASE suit = <<"dots">> -> "D"
      [] suit = <<"bams">> -> "B"
      [] suit = <<"cracks">> -> "C"

\* the resolved tiles of the sequence group of the template: the list the resolver returns
Resolved == hand.group_tiles[1]

\* C26: a packed digit string of n > 1 digits resolves to n tiles in digit
\* order; a digit 0 is the white dragon with and without a suit, as a lone
\* literal and in a comma list too; a digit d that is not 0 is the tile d of
\* the assigned suit; the category names give their whole vocabulary and any,
\* the empty descriptor and None the empty list, before anything else.
C26_PackedDigitsResolve ==
    HandGenerated =>
        LET constraint_values == patterns[1].Groups[1].Constraint_Values
            digits == constraint_values.s
            suit == SuitIn(hand.suit_assignments, patterns[1].Groups[1].Group)
        IN  /\ IsPackedDigits(constraint_values) =>
                  /\ Len(Resolved) = Len(digits)
                  /\ \A i \in 1..Len(digits) :
                        /\ digits[i] = "0" => Resolved[i] = WhiteDragon
                        /\ (digits[i] # "0" /\ suit \in SuitNames) =>
                              Resolved[i] = <<digits[i], SuitLetterOf(suit)>>
            /\ (constraint_values.t # "None" /\ digits = <<"0">>) => Resolved = <<WhiteDragon>>
            /\ (constraint_values.t = "str" /\ contains(digits, ",")) =>
                  LET literals == split(digits, ",")
                  IN  /\ Len(Resolved) = Len(literals)
                      /\ \A i \in 1..Len(literals) :
                            strip(literals[i]) = <<"0">> => Resolved[i] = WhiteDragon
            /\ digits = <<"flower">> => Resolved = FLOWERS
            /\ digits \in {<<"wind">>, <<"winds">>} => Resolved = WINDS
            /\ digits \in {<<"dragon">>, <<"dragons">>} => Resolved = DRAGONS
            /\ (constraint_values.t = "None" \/ digits \in {<<"any">>, <<>>}) => Resolved = <<>>

C26_Witness ==
    /\ pc = "hand"
    /\ patterns[1].Groups[1].Constraint_Values = PyStr(<<"2", "0", "1">>)
    /\ SuitIn(hand.suit_assignments, GroupName(1)) = <<"bams">>
    /\ hand.required_tiles = << <<"2", "B">>, <<"white">>, <<"1", "B">> >>

ScorePcs == {"s_start", "s_section", "s_group"}
MatchLoopPcs == {"m_combo", "m_same_as", "m_must_match"}

AddTile(counts, tile) == [counts EXCEPT ![tile] = @ + 1]

ScoreReturned == pc = "done" /\ patterns[1].Section # <<"ALL PAIRS">>

HasSequence(pattern) ==
    \E g \in 1..Len(pattern.Groups) : pattern.Groups[g].Constraint_Type = "sequence"

\* C28 as stated: for a template outside the ALL PAIRS section, one more tile
\* in the observed multiset never gives a lower score.
C28_ScoreMonotone ==
    ScoreReturned =>
        \A tile \in DOMAIN hand_counts :
            score_hand_for_pattern(AddTile(hand_counts, tile), patterns[1]) >= last_score

\* C28: for a template outside the ALL PAIRS section that has no sequence
\* group, one more tile in the observed multiset never gives a lower score.
C28_ScoreMonotoneWithoutSequence ==
    (ScoreReturned /\ ~HasSequence(patterns[1])) =>
        \A tile \in DOMAIN hand_counts :
            score_hand_for_pattern(AddTile(hand_counts, tile), patterns[1]) >= last_score

C28_Witness ==
    /\ ScoreReturned
    /\ Len(patterns[1].Groups) = 2
    /\ patterns[1].Groups[1].Constraint_Type = "pung"
    /\ patterns[1].Groups[2].Constraint_Type = "kong"
    /\ hand_counts[Tile(1, "D")] = 4
    /\ hand_counts[Tile(1, "C")] = 2
    /\ last_score = 4
    /\ score_hand_for_pattern(AddTile(hand_counts, Tile(1, "C")), patterns[1]) = 7

====
